---- MODULE Spec2Model ----
(***************************************************************************)
(* Kawakaze backend: jail manager, persistence store, kernel jail table,   *)
(* IP allocator, socket connection loop and background build/bootstrap     *)
(* tasks, modelled from src/backend/src.                                   *)
(*                                                                         *)
(* The FreeBSD build is modelled (cfg(target_os = "freebsd") branches).    *)
(***************************************************************************)
EXTENDS Integers, Sequences, FiniteSets, TLC

(***************************************************************************)
(* Bounds of the model.                                                    *)
(***************************************************************************)
\* kernel JIDs handed out between two host reboots
MaxJid == 2
\* UUIDs drawn by Container::generate_id / Image::generate_id
MaxUuid == 3

(***************************************************************************)
(* Manager state (lib.rs JailManager), store rows (store.rs) and the       *)
(* kernel's jail table.                                                    *)
(***************************************************************************)
VARIABLES
    jails,            \* JailManager.jails: name -> Jail
    store_jails,      \* table jails: name -> JailRow
    kernel,           \* live kernel jails: name -> jid
    next_jid,         \* next JID the kernel assigns
    images,           \* JailManager.images: id -> Image
    store_images,     \* table images: id -> row
    containers,       \* JailManager.containers: map key -> Container
    store_containers, \* table containers: id -> row
    next_uuid,        \* index of the next value Uuid::new_v4 yields
    is_root,          \* getuid() == 0 for this daemon process
    fresh,            \* TRUE from the end of JailManager::start to the next request
    api_jails,        \* names created by POST jails (201) and not deleted since
    api_images,       \* ids of images published by add_image and not deleted since
    api_containers,   \* ids returned by POST containers/create (201) and not removed since
    resp              \* last reply: [op, status]

mgrVars == <<jails, store_jails, kernel, next_jid, images, store_images, containers,
             store_containers, next_uuid, is_root, fresh,
             api_jails, api_images, api_containers, resp>>

(***************************************************************************)
(* IP allocator state (networking.rs IpAllocator) and its state file.      *)
(***************************************************************************)
VARIABLES
    allocated_ips,    \* IpAllocator.allocated_ips
    next_ip,          \* IpAllocator.next_ip, an offset into 10.11.0.0/16
    ip_file,          \* lines of /var/db/kawakaze/ip_allocations.txt
    bulk_hi,          \* the addresses of offsets 2..bulk_hi are in allocated_ips
                      \* and in the file as well, written as a range so that a
                      \* nearly full pool is one small state; 1 when there are none
    held,             \* addresses handed out by Ok(..) and not released since
    ret               \* the last call: [op, ok, ip, was_allocated, error]

allocVars == <<allocated_ips, next_ip, ip_file, bulk_hi, held, ret>>

(***************************************************************************)
(* One client connection (server.rs handle_connection).                    *)
(***************************************************************************)
VARIABLES
    conn_in,          \* frames the client has written and the server has not read
    client_open,      \* the client has not closed the stream
    sent,             \* frames the client has written so far
    conn_pc,          \* "next": at framed.next(); "handle": in handle_request;
                      \* "closed": returned Ok; "error": returned Err
    request_count,    \* handle_connection's request_count
    read_log,         \* the frames decoded so far, in order
    replies           \* statuses of the replies sent so far, in order

connVars == <<conn_in, client_open, sent, conn_pc, request_count, read_log, replies>>

(***************************************************************************)
(* One image build: handler build_image, its background task and            *)
(* ImageBuilder::build.                                                     *)
(***************************************************************************)
VARIABLES
    build_pc,              \* position of the build: "idle", "spawned", "report",
                           \* "exec", "snapshot", "report_complete",
                           \* "finish_ok", "finish_err", "done"
    build_id,              \* the id the 202 reply carries
    build_req,             \* the accepted BuildImageRequest
    instructions,          \* parse_dockerfile's result
    step,                  \* index of the instruction in hand, from 0
    builder_chan,          \* ImageBuilder.progress_tx: sent and not received
    handler_chan,          \* build_image's progress_tx: sent and not received
    image_build_progress,  \* JailManager.image_build_progress
    built,                 \* the Image ImageBuilder::build returned
    hist                   \* the last reply to GET images/{x}/history

buildVars == <<build_pc, build_id, build_req, instructions, step, builder_chan,
               handler_chan, image_build_progress, built, hist>>

(***************************************************************************)
(* One bootstrap: handler bootstrap_jail, its background task and           *)
(* Bootstrap::run.                                                          *)
(***************************************************************************)
VARIABLES
    boot_pc,               \* "idle", "spawned", "running", "done"
    boot_name,             \* the jail being bootstrapped
    boot_stage,            \* index of the stage Bootstrap::run is at
    boot_result,           \* what Bootstrap::run returned: "none", "ok", "err"
    boot_chan,             \* the bootstrap progress channel
    bootstrap_progress,    \* JailManager.bootstrap_progress: the status per jail
    bootstrapped           \* jails whose root holds bin/sh

bootVars == <<boot_pc, boot_name, boot_stage, boot_result, boot_chan,
              bootstrap_progress, bootstrapped>>

(***************************************************************************)
(* create_jail requests on concurrent connections.                         *)
(***************************************************************************)
VARIABLES
    conc_pc,               \* per client: "idle", "waiting", "locked", "insert", "done"
    conc_name,             \* per client: the name it asks for
    conc_resp,             \* per client: the status it was answered with
    lock_holder            \* who holds the manager mutex, 0 for nobody

concVars == <<conc_pc, conc_name, conc_resp, lock_holder>>

\* the ZFS pool behind the daemon
VARIABLES
    snapshots,      \* ids of the images whose snapshot exists in the pool
    clones,         \* container dataset |-> id of the image it was cloned from
    destroys        \* the Zfs::destroy calls remove_image has issued: the image
                    \* and the containers created from it that existed then

zfsVars == <<snapshots, clones, destroys>>

\* one Jail object driven through create, start and stop
VARIABLES
    cyc_name,       \* the name of the jail
    cyc_jail,       \* the Jail object, state "none" before Jail::create
    ops             \* the calls made so far: operation, outcome of the external
                    \* steps, result, and the object after the call

cycleVars == <<cyc_name, cyc_jail, ops>>

\* the daemon process: "serving" while JailManager.running, "stopped" after
\* JailManager::stop, "exited" once the process is gone
VARIABLE daemon_pc

\* networking.rs: one call of NetworkManager::move_epair_to_vnet_jail and the
\* redirect rules of pf
VARIABLES
    move_pc,        \* "idle", "try" before an ifconfig, "ok" and "err" after the return
    attempt,        \* the loop variable of the call
    delay,          \* the local variable delay, in milliseconds
    waits,          \* the thread::sleep calls of the call so far: milliseconds, and
                    \* what the sleep came after
    anchor,         \* the rules loaded in the anchor kawakaze_forwarding
    forwards        \* the rules set up by setup_port_forwarding and not released

netVars == <<move_pc, attempt, delay, waits, anchor, forwards>>

\* the background tasks of bootstrap_jail
VARIABLES
    boot_tasks,         \* per spawned task: its jail, whether Bootstrap::run is
                        \* still running, whether its forwarding task is alive
    bootstrap_tracker   \* JailManager.bootstrap_tracker: jail |-> the task whose
                        \* sender the map holds

taskVars == <<boot_tasks, bootstrap_tracker>>

vars == <<mgrVars, zfsVars, allocVars, connVars, buildVars, bootVars, concVars, cycleVars,
          daemon_pc, netVars, taskVars>>

\* what the operations of each part leave alone
notMgr == <<zfsVars, allocVars, connVars, buildVars, bootVars, concVars, cycleVars, daemon_pc,
          netVars, taskVars>>

notMgrZfs == <<allocVars, connVars, buildVars, bootVars, concVars, cycleVars, daemon_pc,
          netVars, taskVars>>

notAlloc == <<mgrVars, zfsVars, connVars, buildVars, bootVars, concVars, cycleVars, daemon_pc,
          netVars, taskVars>>

notConn == <<mgrVars, zfsVars, allocVars, buildVars, bootVars, concVars, cycleVars, daemon_pc,
          netVars, taskVars>>

notBuild == <<zfsVars, allocVars, connVars, bootVars, concVars, cycleVars, daemon_pc,
          netVars, taskVars>>

notBoot == <<zfsVars, allocVars, connVars, buildVars, concVars, cycleVars, daemon_pc,
          netVars, taskVars>>

notConc == <<zfsVars, allocVars, connVars, buildVars, bootVars, cycleVars, daemon_pc,
          netVars, taskVars>>

NoRet == [op |-> "none", ok |-> FALSE, ip |-> << >>, was_allocated |-> FALSE, error |-> ""]

NoImage == [id |-> "", name |-> "", parent_id |-> "null", dockerfile |-> << >>]

\* the parts of the daemon a specification does not exercise stay as they
\* are before their first use; `used` names the parts it does exercise
Idle(used) ==
    /\ IF "alloc" \in used THEN TRUE ELSE
          /\ allocated_ips = {}
          /\ next_ip = 2
          /\ ip_file = {}
          /\ bulk_hi = 1
          /\ held = {}
          /\ ret = NoRet
    /\ IF "conn" \in used THEN TRUE ELSE
          /\ conn_in = << >>
          /\ client_open = FALSE
          /\ sent = 0
          /\ conn_pc = "closed"
          /\ request_count = 0
          /\ read_log = << >>
          /\ replies = << >>
    /\ IF "build" \in used THEN TRUE ELSE
          /\ build_pc = "idle"
          /\ build_id = ""
          /\ build_req = [name |-> "", dockerfile |-> << >>]
          /\ instructions = << >>
          /\ step = 0
          /\ builder_chan = << >>
          /\ handler_chan = << >>
          /\ image_build_progress = << >>
          /\ built = NoImage
          /\ hist = [x |-> "", status |-> 0, created_by |-> << >>, after |-> FALSE]
    /\ IF "boot" \in used THEN TRUE ELSE
          /\ boot_pc = "idle"
          /\ boot_name = ""
          /\ boot_stage = 1
          /\ boot_result = "none"
          /\ boot_chan = << >>
          /\ bootstrap_progress = << >>
          /\ bootstrapped = {}
    /\ IF "conc" \in used THEN TRUE ELSE
          /\ conc_pc = << >>
          /\ conc_name = << >>
          /\ conc_resp = << >>
          /\ lock_holder = 0
    /\ IF "cycle" \in used THEN TRUE ELSE
          /\ cyc_name = ""
          /\ cyc_jail = [jid |-> -1, state |-> "none"]
          /\ ops = << >>

(***************************************************************************)
(* Names and identifiers.                                                  *)
(***************************************************************************)
\* &id[..8]: the first eight characters of a UUID string
Short(n) == ToString(n)

\* Uuid::new_v4().to_string(): the n-th UUID drawn
Uuid(n) == Short(n) \o "-x"

\* format!("kawakaze-{}", &container_id[..8])
JailNameOf(n) == "kawakaze-" \o Short(n)

\* jail names a client sends in POST jails; the second one is the name
\* create_container derives when it draws the second UUID
JailNames == {"a", JailNameOf(2)}

ImageNames == {"img"}

ContainerNames == {"c"}

NoResp == [op |-> "none", status |-> 0]

Reply(op, status) == [op |-> op, status |-> status]

\* HashMap::insert / HashMap::remove
MapPut(m, k, v) == [x \in (DOMAIN m) \cup {k} |-> IF x = k THEN v ELSE m[x]]

MapDel(m, k) == [x \in (DOMAIN m) \ {k} |-> m[x]]

EmptyMap == [x \in {} |-> 0]

(***************************************************************************)
(* jail.rs                                                                 *)
(***************************************************************************)
\* Jail::create
Jail_create == [jid |-> -1, state |-> "Created"]

\* Jail::to_db_row
to_db_row(jail) == [state |-> jail.state, jid |-> jail.jid]

\* Jail::from_db_row
from_db_row(row) == [jid |-> row.jid, state |-> row.state]

\* outcomes of the external steps of Jail::start
StartOutcomes == {"ok", "create_failed", "devfs_failed"}

\* Jail::start on the jail called name, with kernel table k whose next JID
\* is jid: the result, the jail and the kernel table after the call
Jail_start(jail, name, k, jid, outcome) ==
    IF jail.state = "Running" \/ ~is_root
    THEN [ok |-> FALSE, jail |-> jail, kernel |-> k]
    ELSE IF name \in DOMAIN k \/ outcome = "create_failed"
    THEN [ok |-> FALSE, jail |-> jail, kernel |-> k]
    ELSE IF outcome = "devfs_failed"
    THEN [ok |-> FALSE, jail |-> [jail EXCEPT !.jid = jid], kernel |-> MapPut(k, name, jid)]
    ELSE [ok |-> TRUE, jail |-> [jail EXCEPT !.jid = jid, !.state = "Running"],
          kernel |-> MapPut(k, name, jid)]

\* Jail::stop without `self.jid = -1`
Jail_stop_keeps_jid(jail, k) ==
    IF jail.state = "Running" /\ is_root /\ (\E n \in DOMAIN k : k[n] = jail.jid)
    THEN [ok |-> TRUE, jail |-> [jail EXCEPT !.state = "Stopped"],
          kernel |-> [n \in {x \in DOMAIN k : k[x] # jail.jid} |-> k[n]]]
    ELSE [ok |-> FALSE, jail |-> jail, kernel |-> k]

\* Jail::stop: jail_remove(jid) succeeds iff the JID is live
Jail_stop(jail, k) ==
    IF jail.state = "Running" /\ is_root /\ (\E n \in DOMAIN k : k[n] = jail.jid)
    THEN [ok |-> TRUE, jail |-> [jail EXCEPT !.jid = -1, !.state = "Stopped"],
          kernel |-> [n \in {x \in DOMAIN k : k[x] # jail.jid} |-> k[n]]]
    ELSE [ok |-> FALSE, jail |-> jail, kernel |-> k]

\* Jail::destroy: stop first when Running
Jail_destroy(jail, k) ==
    IF jail.state = "Running" THEN Jail_stop(jail, k)
    ELSE [ok |-> TRUE, jail |-> jail, kernel |-> k]

(***************************************************************************)
(* store.rs                                                                *)
(***************************************************************************)
\* insert_jail / insert_image / insert_container: the INSERT fails on a
\* database error or on a primary-key clash
store_insert(table, key, row, dbok) ==
    IF dbok /\ key \notin DOMAIN table THEN MapPut(table, key, row) ELSE table

\* update_jail: UPDATE ... WHERE name = ?; no such row, no change
update_jail(table, name, row, dbok) ==
    IF dbok /\ name \in DOMAIN table THEN MapPut(table, name, row) ELSE table

\* delete_jail / delete_image / delete_container
store_delete(table, key, dbok) == IF dbok THEN MapDel(table, key) ELSE table

\* update_container: UPDATE containers SET state = ? WHERE id = ?
update_container(table, id, state, dbok) ==
    IF dbok /\ id \in DOMAIN table THEN [table EXCEPT ![id].state = state] ELSE table

(***************************************************************************)
(* lib.rs: jail operations of JailManager on the part of the state they    *)
(* touch, m = [jails, store_jails, kernel, next_jid]                       *)
(***************************************************************************)
M == [jails |-> jails, store_jails |-> store_jails, kernel |-> kernel, next_jid |-> next_jid]

SetM(m) ==
    /\ jails' = m.jails
    /\ store_jails' = m.store_jails
    /\ kernel' = m.kernel
    /\ next_jid' = m.next_jid

\* JailManager::start_jail
start_jail(m, name, outcome, dbok) ==
    IF name \notin DOMAIN m.jails THEN [status |-> 404, m |-> m]
    ELSE LET r == Jail_start(m.jails[name], name, m.kernel, m.next_jid, outcome)
         IN [status |-> IF r.ok THEN 200 ELSE 500,
             m |-> [jails |-> [m.jails EXCEPT ![name] = r.jail],
                    store_jails |-> IF r.ok
                                    THEN update_jail(m.store_jails, name, to_db_row(r.jail), dbok)
                                    ELSE m.store_jails,
                    kernel |-> r.kernel,
                    next_jid |-> IF r.kernel = m.kernel THEN m.next_jid ELSE m.next_jid + 1]]

\* JailManager::stop_jail
stop_jail(m, name, dbok) ==
    IF name \notin DOMAIN m.jails THEN [status |-> 404, m |-> m]
    ELSE LET r == Jail_stop(m.jails[name], m.kernel)
         IN [status |-> IF r.ok THEN 200 ELSE 500,
             m |-> [m EXCEPT !.jails = [m.jails EXCEPT ![name] = r.jail],
                             !.store_jails = IF r.ok
                                             THEN update_jail(m.store_jails, name, to_db_row(r.jail), dbok)
                                             ELSE m.store_jails,
                             !.kernel = r.kernel]]

\* JailManager::remove_jail: the entry leaves the map before destroy() runs
remove_jail(m, name, dbok) ==
    IF name \notin DOMAIN m.jails THEN [status |-> 404, m |-> m]
    ELSE LET r == Jail_destroy(m.jails[name], m.kernel)
         IN [status |-> IF r.ok THEN 200 ELSE 500,
             m |-> [m EXCEPT !.jails = MapDel(m.jails, name),
                             !.store_jails = IF r.ok
                                             THEN store_delete(m.store_jails, name, dbok)
                                             ELSE m.store_jails,
                             !.kernel = r.kernel]]

\* the loop body without the demotion of a stale Running row
load_jail_keeps_running(row, name, k) ==
    LET jail == [from_db_row(row) EXCEPT !.jid = -1]
    IN IF name \in DOMAIN k
       THEN [jail EXCEPT !.jid = k[name], !.state = "Running"]
       ELSE jail

\* get_jid_from_kernel and the body of the loop of load_jails_from_db
load_jail(row, name, k) ==
    LET jail == [from_db_row(row) EXCEPT !.jid = -1]
    IN IF name \in DOMAIN k
       THEN [jail EXCEPT !.jid = k[name], !.state = "Running"]
       ELSE IF jail.state = "Running" THEN [jail EXCEPT !.state = "Stopped"] ELSE jail

\* JailManager::load_jails_from_db
load_jails_from_db(rows, k) == [n \in DOMAIN rows |-> load_jail(rows[n], n, k)]

(***************************************************************************)
(* handler.rs: jail endpoints                                              *)
(***************************************************************************)
othersJ == <<images, store_images, containers, store_containers, next_uuid, is_root,
             api_images, api_containers>>

\* POST jails: handler create_jail
CreateJail(name) ==
    /\ IF name \in DOMAIN jails
       THEN /\ resp' = Reply("create_jail", 409)
            /\ UNCHANGED <<jails, api_jails>>
       ELSE /\ jails' = MapPut(jails, name, Jail_create)
            /\ api_jails' = api_jails \cup {name}
            /\ resp' = Reply("create_jail", 201)
    /\ fresh' = FALSE
    /\ UNCHANGED <<store_jails, kernel, next_jid>>
    /\ UNCHANGED othersJ
    /\ UNCHANGED notMgr

\* JailManager::add_jail
AddJail(name, dbok) ==
    /\ IF name \in DOMAIN jails
       THEN /\ resp' = Reply("add_jail", 409)
            /\ UNCHANGED <<jails, store_jails>>
       ELSE /\ store_jails' = store_insert(store_jails, name, to_db_row(Jail_create), dbok)
            /\ jails' = MapPut(jails, name, Jail_create)
            /\ resp' = Reply("add_jail", 201)
    /\ fresh' = FALSE
    /\ UNCHANGED <<kernel, next_jid, api_jails>>
    /\ UNCHANGED othersJ
    /\ UNCHANGED notMgr

\* POST jails/{name}/start: handler start_jail
StartJail(name, outcome, dbok) ==
    /\ next_jid <= MaxJid
    /\ LET r == start_jail(M, name, outcome, dbok)
       IN /\ SetM(r.m)
          /\ resp' = Reply("start_jail", r.status)
    /\ fresh' = FALSE
    /\ UNCHANGED api_jails
    /\ UNCHANGED othersJ
    /\ UNCHANGED notMgr

\* POST jails/{name}/stop: handler stop_jail
StopJail(name, dbok) ==
    /\ LET r == stop_jail(M, name, dbok)
       IN /\ SetM(r.m)
          /\ resp' = Reply("stop_jail", r.status)
    /\ fresh' = FALSE
    /\ UNCHANGED api_jails
    /\ UNCHANGED othersJ
    /\ UNCHANGED notMgr

\* DELETE jails/{name}: handler delete_jail
DeleteJail(name, dbok) ==
    /\ LET r == remove_jail(M, name, dbok)
       IN /\ SetM(r.m)
          /\ resp' = Reply("delete_jail", r.status)
    /\ fresh' = FALSE
    /\ api_jails' = api_jails \ {name}
    /\ UNCHANGED othersJ
    /\ UNCHANGED notMgr

(***************************************************************************)
(* Images                                                                  *)
(***************************************************************************)
\* get_image_by_prefix / get_container_by_prefix compare the argument with
\* the start of each id
IdHasPrefix(id, x) == \E n \in 1..MaxUuid : id = Uuid(n) /\ x \in {Uuid(n), Short(n)}

\* what a client may send where an id, a name or an id prefix is expected
Refs == {Uuid(n) : n \in 1..MaxUuid} \cup {Short(MaxUuid)} \cup ImageNames \cup ContainerNames

\* the lookup chain of the handlers: exact key, then id prefix, then name
\* for containers; exact key, then name, then id prefix for images.
\* Yields the id field of the entry found, or "" when there is none.
resolve(map, x, nameFirst) ==
    LET byName == {k \in DOMAIN map : map[k].name = x}
        byPrefix == {k \in DOMAIN map : IdHasPrefix(map[k].id, x)}
    IN IF x \in DOMAIN map THEN map[x].id
       ELSE IF nameFirst /\ byName # {} THEN map[CHOOSE k \in byName : TRUE].id
       ELSE IF byPrefix # {} THEN map[CHOOSE k \in byPrefix : TRUE].id
       ELSE IF byName # {} THEN map[CHOOSE k \in byName : TRUE].id
       ELSE ""

othersI == <<jails, store_jails, kernel, next_jid, containers, store_containers, is_root,
             api_jails, api_containers>>

\* JailManager::add_image, as called when a build has produced an image:
\* Image::new draws the id; the row is written before the map entry
AddImage(name, dbok) ==
    /\ next_uuid <= MaxUuid
    /\ LET id == Uuid(next_uuid)
           image == [id |-> id, name |-> name]
           ok == dbok /\ id \notin DOMAIN store_images
                      /\ \A i \in DOMAIN store_images : store_images[i].name # name
       IN /\ store_images' = IF ok THEN MapPut(store_images, id, image) ELSE store_images
          /\ images' = IF ok THEN MapPut(images, id, image) ELSE images
          /\ api_images' = IF ok THEN api_images \cup {id} ELSE api_images
          /\ resp' = Reply("add_image", IF ok THEN 200 ELSE 500)
    /\ snapshots' = snapshots \cup {Uuid(next_uuid)}
    /\ next_uuid' = next_uuid + 1
    /\ fresh' = FALSE
    /\ UNCHANGED <<clones, destroys>>
    /\ UNCHANGED othersI
    /\ UNCHANGED notMgrZfs

\* Zfs::destroy runs "zfs destroy -r" on the path; ZFS refuses to destroy a
\* snapshot that a clone depends on
zfs_destroy_snapshot(snaps, cl, id, cmdok) ==
    IF cmdok /\ \A d \in DOMAIN cl : cl[d] # id THEN snaps \ {id} ELSE snaps

\* DELETE images/{id}: handler delete_image and JailManager::remove_image
DeleteImage(x, cmdok, dbok) ==
    /\ LET id == resolve(images, x, TRUE)
       IN IF id = ""
          THEN /\ resp' = Reply("delete_image", 404)
               /\ UNCHANGED <<images, store_images, api_images, snapshots, destroys>>
          ELSE /\ snapshots' = zfs_destroy_snapshot(snapshots, clones, id, cmdok)
               /\ destroys' = destroys \cup
                      {[image |-> id,
                        dependents |-> {k \in DOMAIN containers : containers[k].image_id = id}]}
               /\ store_images' = store_delete(store_images, id, dbok)
               /\ images' = IF dbok THEN MapDel(images, id) ELSE images
               /\ api_images' = api_images \ {id}
               /\ resp' = Reply("delete_image", IF dbok THEN 200 ELSE 500)
    /\ fresh' = FALSE
    /\ UNCHANGED <<next_uuid, clones>>
    /\ UNCHANGED othersI
    /\ UNCHANGED notMgrZfs

(***************************************************************************)
(* Containers                                                              *)
(***************************************************************************)
othersC == <<images, store_images, is_root, api_jails, api_images>>

\* POST containers/create: handler create_container and
\* JailManager::create_container.  generate_id() draws the map key and the
\* jail name, Container::new draws the id of the container itself.
CreateContainer(x, name, cloneok, dbok) ==
    /\ next_uuid + 1 <= MaxUuid
    /\ LET image_id == resolve(images, x, TRUE)
           container_id == Uuid(next_uuid)
           container == [id |-> Uuid(next_uuid + 1), name |-> name, image_id |-> image_id,
                         jail_name |-> JailNameOf(next_uuid), dataset |-> Short(next_uuid),
                         state |-> "Created", started_at |-> FALSE]
           cloned == cloneok /\ image_id \in snapshots
           inserted == /\ dbok
                       /\ container.id \notin DOMAIN store_containers
                       /\ \A i \in DOMAIN store_containers :
                              /\ store_containers[i].name # container.name
                              /\ store_containers[i].jail_name # container.jail_name
       IN IF image_id = ""
          THEN /\ resp' = Reply("create_container", 404)
               /\ UNCHANGED <<containers, store_containers, next_uuid, api_containers, clones>>
          ELSE IF ~cloned
          THEN /\ resp' = Reply("create_container", 500)
               /\ next_uuid' = next_uuid + 1
               /\ UNCHANGED <<containers, store_containers, api_containers, clones>>
          ELSE IF ~inserted
          THEN /\ resp' = Reply("create_container", 500)
               /\ clones' = MapPut(clones, container.dataset, image_id)
               /\ next_uuid' = next_uuid + 2
               /\ UNCHANGED <<containers, store_containers, api_containers>>
          ELSE /\ clones' = MapPut(clones, container.dataset, image_id)
               /\ store_containers' = MapPut(store_containers, container.id, container)
               /\ containers' = MapPut(containers, container_id, container)
               /\ api_containers' = api_containers \cup {container.id}
               /\ next_uuid' = next_uuid + 2
               /\ resp' = Reply("create_container", 201)
    /\ fresh' = FALSE
    /\ UNCHANGED <<jails, store_jails, kernel, next_jid, snapshots, destroys>>
    /\ UNCHANGED othersC
    /\ UNCHANGED notMgrZfs

\* Container::set_state
set_state(c, state) ==
    [c EXCEPT !.state = state,
              !.started_at = IF state = "Running" THEN TRUE ELSE c.started_at]

\* POST containers/{id}/start: handler start_container and
\* JailManager::start_container
StartContainer(x, outcome, dbok, dbok2) ==
    /\ next_jid <= MaxJid
    /\ LET id == resolve(containers, x, FALSE)
           r == start_jail(M, containers[id].jail_name, outcome, dbok)
       IN IF id = ""
          THEN /\ resp' = Reply("start_container", 404)
               /\ UNCHANGED <<jails, store_jails, kernel, next_jid, containers, store_containers>>
          ELSE IF id \notin DOMAIN containers
          THEN /\ resp' = Reply("start_container", 500)
               /\ UNCHANGED <<jails, store_jails, kernel, next_jid, containers, store_containers>>
          ELSE IF r.status # 200
          THEN /\ SetM(r.m)
               /\ resp' = Reply("start_container", 500)
               /\ UNCHANGED <<containers, store_containers>>
          ELSE /\ SetM(r.m)
               /\ containers' = [containers EXCEPT ![id] = set_state(@, "Running")]
               /\ store_containers' = update_container(store_containers, id, "Running", dbok2)
               /\ resp' = Reply("start_container", IF dbok2 THEN 200 ELSE 500)
    /\ fresh' = FALSE
    /\ UNCHANGED <<next_uuid, api_containers>>
    /\ UNCHANGED othersC
    /\ UNCHANGED notMgr

\* POST containers/{id}/stop: handler stop_container and
\* JailManager::stop_container
StopContainer(x, dbok, dbok2) ==
    /\ LET id == resolve(containers, x, FALSE)
           r == stop_jail(M, containers[id].jail_name, dbok)
       IN IF id = ""
          THEN /\ resp' = Reply("stop_container", 404)
               /\ UNCHANGED <<jails, store_jails, kernel, next_jid, containers, store_containers>>
          ELSE IF id \notin DOMAIN containers
          THEN /\ resp' = Reply("stop_container", 500)
               /\ UNCHANGED <<jails, store_jails, kernel, next_jid, containers, store_containers>>
          ELSE IF r.status # 200
          THEN /\ SetM(r.m)
               /\ resp' = Reply("stop_container", 500)
               /\ UNCHANGED <<containers, store_containers>>
          ELSE /\ SetM(r.m)
               /\ containers' = [containers EXCEPT ![id] = set_state(@, "Stopped")]
               /\ store_containers' = update_container(store_containers, id, "Stopped", dbok2)
               /\ resp' = Reply("stop_container", IF dbok2 THEN 200 ELSE 500)
    /\ fresh' = FALSE
    /\ UNCHANGED <<next_uuid, api_containers>>
    /\ UNCHANGED othersC
    /\ UNCHANGED notMgr

\* DELETE containers/{id}: handler remove_container and
\* JailManager::remove_container
RemoveContainer(x, force, dbok) ==
    /\ LET id == resolve(containers, x, FALSE)
           c == containers[id]
           m1 == IF c.state = "Running" THEN stop_jail(M, c.jail_name, dbok).m ELSE M
           m2 == remove_jail(m1, c.jail_name, dbok).m
       IN IF id = ""
          THEN /\ resp' = Reply("remove_container", 404)
               /\ UNCHANGED <<jails, store_jails, kernel, next_jid, containers,
                              store_containers, api_containers, clones>>
          ELSE IF id \in DOMAIN containers /\ c.state = "Running" /\ ~force
          THEN /\ resp' = Reply("remove_container", 400)
               /\ UNCHANGED <<jails, store_jails, kernel, next_jid, containers,
                              store_containers, api_containers, clones>>
          ELSE IF id \notin DOMAIN containers
          THEN /\ resp' = Reply("remove_container", 500)
               /\ UNCHANGED <<jails, store_jails, kernel, next_jid, containers,
                              store_containers, api_containers, clones>>
          ELSE /\ SetM(m2)
               /\ clones' = MapDel(clones, c.dataset)
               /\ containers' = MapDel(containers, id)
               /\ store_containers' = store_delete(store_containers, id, dbok)
               /\ api_containers' = api_containers \ {id}
               /\ resp' = Reply("remove_container", IF dbok THEN 200 ELSE 500)
    /\ fresh' = FALSE
    /\ UNCHANGED <<next_uuid, snapshots, destroys>>
    /\ UNCHANGED othersC
    /\ UNCHANGED notMgrZfs

(***************************************************************************)
(* Daemon start: JailManager::with_config and JailManager::start           *)
(***************************************************************************)
\* The daemon process ends and a new one starts on the same database.
\* reboot: the host went down in between, so no kernel jail survives.
Restart(reboot, root) ==
    /\ kernel' = IF reboot THEN EmptyMap ELSE kernel
    /\ next_jid' = IF reboot THEN 1 ELSE next_jid
    /\ is_root' = root
    /\ jails' = load_jails_from_db(store_jails, kernel')
    /\ images' = store_images
    /\ containers' = store_containers
    /\ fresh' = TRUE
    /\ resp' = NoResp
    /\ UNCHANGED <<store_jails, store_images, store_containers, next_uuid,
                   api_jails, api_images, api_containers>>
    /\ UNCHANGED notMgr

InitMgr ==
    /\ jails = EmptyMap
    /\ store_jails = EmptyMap
    /\ kernel = EmptyMap
    /\ next_jid = 1
    /\ images = EmptyMap
    /\ store_images = EmptyMap
    /\ containers = EmptyMap
    /\ store_containers = EmptyMap
    /\ next_uuid = 1
    /\ is_root \in BOOLEAN
    /\ fresh = TRUE
    /\ api_jails = {}
    /\ api_images = {}
    /\ api_containers = {}
    /\ resp = NoResp
    /\ snapshots = {}
    /\ clones = EmptyMap
    /\ destroys = {}
    /\ daemon_pc = "serving"
    /\ move_pc = "idle"
    /\ attempt = 0
    /\ delay = 0
    /\ waits = << >>
    /\ anchor = {}
    /\ forwards = {}
    /\ boot_tasks = << >>
    /\ bootstrap_tracker = EmptyMap

\* jail lifecycle of the daemon: POST/DELETE jails, add_jail and restarts
NextJails ==
    \/ \E n \in JailNames : CreateJail(n)
    \/ \E n \in JailNames, dbok \in BOOLEAN : AddJail(n, dbok)
    \/ \E n \in JailNames, o \in StartOutcomes, dbok \in BOOLEAN : StartJail(n, o, dbok)
    \/ \E n \in JailNames, dbok \in BOOLEAN : StopJail(n, dbok)
    \/ \E n \in JailNames, dbok \in BOOLEAN : DeleteJail(n, dbok)
    \/ \E reboot \in BOOLEAN, root \in BOOLEAN : Restart(reboot, root)

InitJails == InitMgr /\ Idle({})

SpecJails == InitJails /\ [][NextJails]_vars

\* images and containers of a daemon running as root, with the jail
\* endpoints used on the jail name a container derives
ContainerJailNames == {JailNameOf(2)}

InitRoot == InitMgr /\ is_root = TRUE /\ Idle({})

NextMgr ==
    \/ \E n \in ContainerJailNames : CreateJail(n)
    \/ \E n \in ContainerJailNames, o \in StartOutcomes : StartJail(n, o, TRUE)
    \/ \E n \in ContainerJailNames : StopJail(n, TRUE)
    \/ \E n \in ContainerJailNames : DeleteJail(n, TRUE)
    \/ \E n \in ImageNames, dbok \in BOOLEAN : AddImage(n, dbok)
    \/ \E x \in Refs, cmdok \in BOOLEAN, dbok \in BOOLEAN : DeleteImage(x, cmdok, dbok)
    \/ \E x \in Refs, n \in ContainerNames, cloneok \in BOOLEAN, dbok \in BOOLEAN :
           CreateContainer(x, n, cloneok, dbok)
    \/ \E x \in Refs, o \in StartOutcomes, dbok2 \in BOOLEAN : StartContainer(x, o, TRUE, dbok2)
    \/ \E x \in Refs, dbok2 \in BOOLEAN : StopContainer(x, TRUE, dbok2)
    \/ \E x \in Refs, force \in BOOLEAN, dbok \in BOOLEAN : RemoveContainer(x, force, dbok)
    \/ \E reboot \in BOOLEAN : Restart(reboot, is_root)

SpecMgr == InitRoot /\ [][NextMgr]_vars

(***************************************************************************)
(* Properties of the jail lifecycle and of restarts                        *)
(***************************************************************************)
\* C1: in every reachable state every jail of the manager is Running
\* exactly when its jid is at least 1, and a Created or Stopped jail has
\* jid = -1.
C1_JidMatchesState ==
    \A n \in DOMAIN jails :
        /\ (jails[n].state = "Running") <=> (jails[n].jid >= 1)
        /\ jails[n].state \in {"Created", "Stopped"} => jails[n].jid = -1

\* C2: when JailManager::start has finished, a loaded jail is Running with
\* the live kernel JID exactly when the kernel knows its name; otherwise it
\* has jid = -1, and a row persisted as Running is loaded as Stopped.
C2_StartupSyncsWithKernel ==
    fresh =>
        /\ DOMAIN jails = DOMAIN store_jails
        /\ \A n \in DOMAIN jails :
              /\ n \in DOMAIN kernel =>
                     jails[n].state = "Running" /\ jails[n].jid = kernel[n]
              /\ n \notin DOMAIN kernel =>
                     jails[n].state # "Running" /\ jails[n].jid = -1
              /\ (n \notin DOMAIN kernel /\ store_jails[n].state = "Running") =>
                     jails[n].state = "Stopped"

\* a start-up that loaded one jail found in the kernel and one jail
\* persisted as Running that the kernel no longer has
C2_Witness ==
    /\ fresh
    /\ \E n \in DOMAIN jails : n \in DOMAIN kernel /\ jails[n].state = "Running"
    /\ \E n \in DOMAIN jails :
           /\ n \notin DOMAIN kernel
           /\ store_jails[n].state = "Running"
           /\ jails[n].state = "Stopped"

\* C3: every container held by the manager has exactly one jail whose name
\* is the container's jail_name.
C3_ContainerHasItsJail ==
    \A k \in DOMAIN containers :
        Cardinality({n \in DOMAIN jails : n = containers[k].jail_name}) = 1

\* C4: after a restart every jail, image and container that was created
\* through the API and not removed since is present in the manager.
C4_RestartKeepsApiObjects ==
    fresh =>
        /\ api_jails \subseteq DOMAIN jails
        /\ api_images \subseteq DOMAIN images
        /\ api_containers \subseteq DOMAIN containers

(***************************************************************************)
(* networking.rs: IpAllocator.  An address is the tuple of its octets.     *)
(***************************************************************************)
\* addresses in use at once in the model
MaxIps == 3
\* allocate() is followed while the cursor is below this offset or has
\* reached the end of the range
MaxCursor == 4

\* IpAllocator::is_in_network
is_in_network(ip) == ip[1] = 10 /\ ip[2] = 11

\* IpAllocator::offset_to_ip; << >> stands for Err(IpAllocationFailed)
offset_to_ip(offset) ==
    IF offset > 65534 \/ offset < 2 THEN << >>
    ELSE <<10, 11, (offset \div 256) % 256, offset % 256>>

\* HashSet::contains on allocated_ips
contains(alloc, ip) ==
    ip \in alloc \/ (Len(ip) = 4 /\ is_in_network(ip) /\ ip[3] * 256 + ip[4] \in 2..bulk_hi)

\* the loop of allocate() without the test for an allocated address
RECURSIVE scan_first(_, _, _)
scan_first(offset, end, alloc) ==
    IF offset >= end THEN [kind |-> "none", offset |-> offset]
    ELSE IF offset_to_ip(offset) = << >> THEN [kind |-> "err", offset |-> offset]
    ELSE [kind |-> "free", offset |-> offset]

\* `for offset in offset..end`: the first offset whose address is not in
\* alloc, "err" when offset_to_ip fails first, "none" when the range ends
RECURSIVE scan(_, _, _)
scan(offset, end, alloc) ==
    IF offset >= end THEN [kind |-> "none", offset |-> offset]
    ELSE IF offset_to_ip(offset) = << >> THEN [kind |-> "err", offset |-> offset]
    ELSE IF contains(alloc, offset_to_ip(offset))
    THEN scan(IF offset \in 2..bulk_hi THEN bulk_hi + 1 ELSE offset + 1, end, alloc)
    ELSE [kind |-> "free", offset |-> offset]

\* IpAllocator::save_state: the file is rewritten unless the write fails
save_state(alloc, saveok) == IF saveok THEN alloc ELSE ip_file

\* IpAllocator::load_state: lines that parse as addresses of the network
load_state(file) ==
    LET ips == {l \in file : Len(l) = 4 /\ is_in_network(l)}
        offsets == {ip[3] * 256 + ip[4] : ip \in ips} \cup {1, bulk_hi}
    IN [allocated_ips |-> ips,
        next_ip |-> (CHOOSE m \in offsets : \A o \in offsets : o <= m) + 1]

\* addresses a caller passes to allocate_specific and release
SpecificIps == {<<10, 11, 0, 2>>, <<10, 11, 0, 3>>, <<10, 11, 255, 253>>,
                <<10, 11, 255, 255>>, <<10, 12, 0, 5>>}

\* IpAllocator::allocate
Allocate(saveok) ==
    /\ Cardinality(allocated_ips) < MaxIps
    /\ next_ip < MaxCursor \/ next_ip >= 65534 - MaxCursor
    /\ LET first == scan(next_ip, 65534, allocated_ips)
           gap == scan(2, next_ip, allocated_ips)
           hit == IF first.kind = "none" THEN gap ELSE first
           ip == offset_to_ip(hit.offset)
       IN IF hit.kind = "free"
          THEN /\ allocated_ips' = allocated_ips \cup {ip}
               /\ next_ip' = IF first.kind = "free" THEN hit.offset + 1 ELSE next_ip
               /\ ip_file' = save_state(allocated_ips', saveok)
               /\ held' = IF saveok THEN held \cup {ip} ELSE held
               /\ ret' = [op |-> "allocate", ok |-> saveok, ip |-> ip,
                          was_allocated |-> contains(allocated_ips, ip),
                          error |-> IF saveok THEN "" ELSE "IoError"]
          ELSE /\ ret' = [op |-> "allocate", ok |-> FALSE, ip |-> << >>,
                          was_allocated |-> FALSE,
                          error |-> IF hit.kind = "none" THEN "IpExhausted"
                                    ELSE "IpAllocationFailed"]
               /\ UNCHANGED <<allocated_ips, next_ip, ip_file, held>>
    /\ UNCHANGED bulk_hi
    /\ UNCHANGED notAlloc

\* IpAllocator::allocate_specific
AllocateSpecific(ip, saveok) ==
    /\ Cardinality(allocated_ips) < MaxIps
    /\ IF ~is_in_network(ip) \/ contains(allocated_ips, ip)
       THEN /\ ret' = [op |-> "allocate_specific", ok |-> FALSE, ip |-> ip,
                       was_allocated |-> contains(allocated_ips, ip),
                       error |-> "IpAllocationFailed"]
            /\ UNCHANGED <<allocated_ips, ip_file, held>>
       ELSE /\ allocated_ips' = allocated_ips \cup {ip}
            /\ ip_file' = save_state(allocated_ips', saveok)
            /\ held' = IF saveok THEN held \cup {ip} ELSE held
            /\ ret' = [op |-> "allocate_specific", ok |-> saveok, ip |-> ip,
                       was_allocated |-> FALSE,
                       error |-> IF saveok THEN "" ELSE "IoError"]
    /\ UNCHANGED <<next_ip, bulk_hi>>
    /\ UNCHANGED notAlloc

\* IpAllocator::release
Release(ip, saveok) ==
    /\ ip \in allocated_ips \/ ~contains(allocated_ips, ip)
    /\ allocated_ips' = allocated_ips \ {ip}
    /\ ip_file' = IF ip \in allocated_ips THEN save_state(allocated_ips', saveok) ELSE ip_file
    /\ held' = held \ {ip}
    /\ ret' = [op |-> "release", ok |-> (ip \notin allocated_ips \/ saveok), ip |-> ip,
               was_allocated |-> ip \in allocated_ips,
               error |-> IF ip \notin allocated_ips \/ saveok THEN "" ELSE "IoError"]
    /\ UNCHANGED <<next_ip, bulk_hi>>
    /\ UNCHANGED notAlloc

\* IpAllocator::new in a new daemon process
NewAllocator ==
    /\ allocated_ips' = load_state(ip_file).allocated_ips
    /\ next_ip' = load_state(ip_file).next_ip
    /\ ret' = NoRet
    /\ UNCHANGED <<ip_file, bulk_hi, held>>
    /\ UNCHANGED notAlloc

\* IpAllocator::new on a host without a state file, or with a file that
\* holds a foreign address and a line that is no address
InitAlloc ==
    /\ ip_file \in {{}, {<<10, 12, 0, 5>>, << >>}}
    /\ bulk_hi = 1
    /\ allocated_ips = load_state(ip_file).allocated_ips
    /\ next_ip = load_state(ip_file).next_ip
    /\ held = {}
    /\ ret = NoRet
    /\ InitMgr
    /\ is_root = TRUE
    /\ Idle({"alloc"})

NextAlloc ==
    \/ \E saveok \in BOOLEAN : Allocate(saveok)
    \/ \E ip \in SpecificIps, saveok \in BOOLEAN : AllocateSpecific(ip, saveok)
    \/ \E ip \in SpecificIps \cup allocated_ips, saveok \in BOOLEAN : Release(ip, saveok)
    \/ NewAllocator

SpecAlloc == InitAlloc /\ [][NextAlloc]_vars

\* IpAllocator::new on a host whose state file lists all but the last few
\* addresses of the pool
InitPool ==
    /\ bulk_hi \in (65534 - MaxIps)..65533
    /\ ip_file = {}
    /\ allocated_ips = load_state(ip_file).allocated_ips
    /\ next_ip = load_state(ip_file).next_ip
    /\ held = {}
    /\ ret = NoRet
    /\ InitMgr
    /\ is_root = TRUE
    /\ Idle({"alloc"})

SpecPool == InitPool /\ [][NextAlloc]_vars

\* C5: after any sequence of allocate, allocate_specific and release every
\* allocated address lies in 10.11.0.0/16, an address that was handed out
\* stays allocated until it is released (so it is never held twice), and a
\* successful allocate or allocate_specific returns an address that was not
\* allocated when the call started.
C5_AllocatorSound ==
    /\ \A ip \in allocated_ips : is_in_network(ip)
    /\ held \subseteq allocated_ips
    /\ (ret.ok /\ ret.op \in {"allocate", "allocate_specific"}) =>
           (~ret.was_allocated /\ ret.ip \in allocated_ips)

\* allocate() wrapped around: the cursor is at the end of the range, other
\* addresses are in use, and the call returned the first gap
C5_Witness ==
    /\ ret.op = "allocate"
    /\ ret.ok
    /\ next_ip = 65534
    /\ ret.ip = <<10, 11, 0, 3>>
    /\ <<10, 11, 0, 2>> \in allocated_ips

(***************************************************************************)
(* server.rs: JsonCodec and handle_connection                              *)
(***************************************************************************)
\* frames a client writes on one connection
MaxFrames == 3

\* a length-prefixed frame holds a Request, JSON that is no Request, or
\* bytes that are not JSON
FrameKinds == {"request", "not_request", "bad_json"}

\* a client connects: the state at the top of handle_connection
InitConn ==
    /\ conn_in = << >>
    /\ client_open = TRUE
    /\ sent = 0
    /\ conn_pc = "next"
    /\ request_count = 0
    /\ read_log = << >>
    /\ replies = << >>
    /\ InitMgr
    /\ is_root = TRUE
    /\ Idle({"conn"})

\* the client writes one more frame
ClientSend(kind) ==
    /\ client_open
    /\ sent < MaxFrames
    /\ conn_in' = Append(conn_in, kind)
    /\ sent' = sent + 1
    /\ UNCHANGED <<client_open, conn_pc, request_count, read_log, replies>>
    /\ UNCHANGED notConn

\* the client closes the stream
ClientClose ==
    /\ client_open
    /\ client_open' = FALSE
    /\ UNCHANGED <<conn_in, sent, conn_pc, request_count, read_log, replies>>
    /\ UNCHANGED notConn

\* framed.send(..).await? can fail only once the peer is gone
SendResults == IF client_open THEN {TRUE} ELSE {TRUE, FALSE}

\* framed.next() yields Some(Ok(json)): the frame is counted; JSON that is
\* no Request is answered with 400 and the loop continues
ReadFrame(sendok) ==
    /\ conn_pc = "next"
    /\ conn_in # << >>
    /\ Head(conn_in) # "bad_json"
    /\ conn_in' = Tail(conn_in)
    /\ request_count' = request_count + 1
    /\ read_log' = Append(read_log, Head(conn_in))
    /\ IF Head(conn_in) = "request"
       THEN /\ conn_pc' = "handle"
            /\ UNCHANGED replies
       ELSE /\ replies' = IF sendok THEN Append(replies, 400) ELSE replies
            /\ conn_pc' = IF sendok THEN "next" ELSE "error"
    /\ UNCHANGED <<client_open, sent>>
    /\ UNCHANGED notConn

\* the loop body of handle_connection leaving the loop after its reply
HandleRequestOnce(sendok) ==
    /\ conn_pc = "handle"
    /\ replies' = IF sendok THEN Append(replies, 200) ELSE replies
    /\ conn_pc' = IF sendok THEN "closed" ELSE "error"
    /\ UNCHANGED <<conn_in, client_open, sent, request_count, read_log>>
    /\ UNCHANGED notConn

\* handle_request answers, the reply is sent and the loop goes on to the
\* next framed.next()
HandleRequest(sendok) ==
    /\ conn_pc = "handle"
    /\ replies' = IF sendok THEN Append(replies, 200) ELSE replies
    /\ conn_pc' = IF sendok THEN "next" ELSE "error"
    /\ UNCHANGED <<conn_in, client_open, sent, request_count, read_log>>
    /\ UNCHANGED notConn

\* framed.next() yields Some(Err(e)): the payload is not JSON
DecodeError ==
    /\ conn_pc = "next"
    /\ conn_in # << >>
    /\ Head(conn_in) = "bad_json"
    /\ conn_in' = Tail(conn_in)
    /\ conn_pc' = "error"
    /\ UNCHANGED <<client_open, sent, request_count, read_log, replies>>
    /\ UNCHANGED notConn

\* framed.next() yields None: the client closed the stream
EndOfStream ==
    /\ conn_pc = "next"
    /\ conn_in = << >>
    /\ ~client_open
    /\ conn_pc' = "closed"
    /\ UNCHANGED <<conn_in, client_open, sent, request_count, read_log, replies>>
    /\ UNCHANGED notConn

NextConn ==
    \/ \E kind \in FrameKinds : ClientSend(kind)
    \/ ClientClose
    \/ \E sendok \in SendResults : ReadFrame(sendok)
    \/ \E sendok \in SendResults : HandleRequest(sendok)
    \/ DecodeError
    \/ EndOfStream

SpecConn == InitConn /\ [][NextConn]_vars

ReplyFor(kind) == IF kind = "request" THEN 200 ELSE 400

ChannelCapacity == 100

\* a Dockerfile is a sequence of lines, a line a keyword and its argument;
\* "" is a blank line, "#" a comment, and an argument "\\" a line that ends
\* in a backslash
Dockerfiles ==
    LET from == <<"FROM", "scratch">>
        run == <<"RUN", "echo hi">>
    IN { << >>,
         <<from, run>>,
         <<from>> \o [i \in 1..ChannelCapacity |-> run],
         <<from, <<"", "">>, <<"RUN", "\\">>, run, <<"#", "">>>>,
         <<from, <<"BOGUS", "x">>>>,
         <<<<"#", "">>, run>>,
         <<<<"RUN", "\\">>, from, run>>,
         <<<<"FROM", "base">>, run>> }

\* ImageBuilder::parse_dockerfile: blank lines, comments and lines ending in
\* a backslash are skipped; parse_instruction knows the keywords below; a
\* leading FROM scratch is dropped
parse_dockerfile(df) ==
    LET kept == SelectSeq(df, LAMBDA l : l[1] \notin {"", "#"} /\ l[2] # "\\")
        Keywords == {"FROM", "BOOTSTRAP", "RUN", "COPY", "ADD", "WORKDIR", "ENV",
                     "EXPOSE", "USER", "VOLUME", "CMD", "ENTRYPOINT", "LABEL"}
    IN IF \E i \in 1..Len(kept) : kept[i][1] \notin Keywords
       THEN [ok |-> FALSE, instructions |-> << >>]
       ELSE IF kept # << >> /\ kept[1][1] # "FROM"
       THEN [ok |-> FALSE, instructions |-> << >>]
       ELSE IF kept # << >> /\ kept[1] = <<"FROM", "scratch">>
       THEN [ok |-> TRUE, instructions |-> Tail(kept)]
       ELSE [ok |-> TRUE, instructions |-> kept]

\* handler parse_from_instruction: the image the first instruction names,
\* "" when that is no FROM
parse_from_instruction(df) ==
    LET real == SelectSeq(df, LAMBDA l : l[1] \notin {"", "#"})
    IN IF real # << >> /\ real[1][1] = "FROM" THEN real[1][2] ELSE ""

\* POST images/build: handler build_image up to its 202 reply
BuildImage(name, df) ==
    /\ build_pc \in {"idle", "done"}
    /\ LET from == parse_from_instruction(df)
           id == Uuid(next_uuid)
           refused ==
               IF name = "" \/ df = << >> THEN 400
               ELSE IF \E k \in DOMAIN images : images[k].name = name THEN 409
               ELSE IF from \notin {"", "scratch"}
                       /\ \A k \in DOMAIN images : images[k].name # from THEN 400
               ELSE 0
       IN IF refused # 0
          THEN /\ resp' = Reply("build_image", refused)
               /\ UNCHANGED <<next_uuid, buildVars>>
          ELSE /\ next_uuid + 1 <= MaxUuid
               /\ next_uuid' = next_uuid + 1
               /\ build_id' = id
               /\ build_req' = [name |-> name, dockerfile |-> df]
               /\ image_build_progress' =
                      MapPut(image_build_progress, id,
                             [status |-> "Building", step |-> 0, total_steps |-> 0])
               /\ build_pc' = "spawned"
               /\ instructions' = << >>
               /\ step' = 0
               /\ builder_chan' = << >>
               /\ built' = NoImage
               /\ resp' = Reply("build_image", 202)
               /\ UNCHANGED <<handler_chan, hist>>
    /\ fresh' = FALSE
    /\ UNCHANGED <<images, store_images, api_images>>
    /\ UNCHANGED othersI
    /\ UNCHANGED notBuild

\* the background task up to the first instruction: Zfs::new,
\* ImageBuilder::new, parse_dockerfile, create_build_dataset, mount_dataset
TaskBegin(zfsok, dsok) ==
    /\ build_pc = "spawned"
    /\ LET p == parse_dockerfile(build_req.dockerfile)
       IN IF ~zfsok
          THEN /\ Len(handler_chan) < ChannelCapacity
               /\ handler_chan' = Append(handler_chan,
                      [status |-> "Failed", step |-> 0, total_steps |-> 0])
               /\ build_pc' = "done"
               /\ UNCHANGED instructions
          ELSE /\ build_pc' = IF ~p.ok \/ ~dsok THEN "finish_err"
                              ELSE IF p.instructions = << >> THEN "snapshot"
                              ELSE "report"
               /\ instructions' = p.instructions
               /\ UNCHANGED handler_chan
    /\ UNCHANGED <<build_id, build_req, step, builder_chan, image_build_progress, built, hist>>
    /\ UNCHANGED <<mgrVars, notBuild>>

\* ImageBuilder::report_progress: progress_tx.send(progress).await returns
\* once the channel has room; the receiver is held by the task and never read
report_progress ==
    /\ build_pc \in {"report", "report_complete"}
    /\ Len(builder_chan) < ChannelCapacity
    /\ builder_chan' = Append(builder_chan,
           [status |-> IF build_pc = "report" THEN "Building" ELSE "Complete",
            step |-> step, total_steps |-> Len(instructions)])
    /\ build_pc' = IF build_pc = "report" THEN "exec" ELSE "finish_ok"
    /\ UNCHANGED <<build_id, build_req, instructions, step, handler_chan,
                   image_build_progress, built, hist>>
    /\ UNCHANGED <<mgrVars, notBuild>>

\* execute_instruction for the instruction in hand.  For RUN, ok is the
\* result of chroot_command (the child exited with status 0); when it is
\* false execute_run goes on to its fallback.
TaskExec(ok) ==
    /\ build_pc = "exec"
    /\ step' = IF ok THEN step + 1 ELSE step
    /\ build_pc' = IF ~ok /\ instructions[step + 1][1] = "RUN" THEN "run_fallback"
                   ELSE IF ~ok THEN "finish_err"
                   ELSE IF step + 1 < Len(instructions) THEN "report"
                   ELSE "snapshot"
    /\ UNCHANGED <<build_id, build_req, instructions, builder_chan, handler_chan,
                   image_build_progress, built, hist>>
    /\ UNCHANGED <<mgrVars, notBuild>>

\* execute_run after chroot_command returned false: the command is written
\* to tmp/kawakaze-build.sh under the build root and the instruction counts
\* as executed; only a file-system error fails it
RunFallback(fsok) ==
    /\ build_pc = "run_fallback"
    /\ step' = IF fsok THEN step + 1 ELSE step
    /\ build_pc' = IF ~fsok THEN "finish_err"
                   ELSE IF step + 1 < Len(instructions) THEN "report"
                   ELSE "snapshot"
    /\ UNCHANGED <<build_id, build_req, instructions, builder_chan, handler_chan,
                   image_build_progress, built, hist>>
    /\ UNCHANGED <<mgrVars, notBuild>>

\* create_snapshot, rename and Image::new, which draws the image's own id
TaskSnapshot(ok) ==
    /\ build_pc = "snapshot"
    /\ IF ok
       THEN /\ next_uuid <= MaxUuid
            /\ built' = [id |-> Uuid(next_uuid), name |-> build_req.name,
                         parent_id |-> "null", dockerfile |-> instructions]
            /\ snapshots' = snapshots \cup {Uuid(next_uuid)}
            /\ next_uuid' = next_uuid + 1
            /\ build_pc' = "report_complete"
       ELSE /\ build_pc' = "finish_err"
            /\ UNCHANGED <<built, next_uuid, snapshots>>
    /\ UNCHANGED <<build_id, build_req, instructions, step, builder_chan, handler_chan,
                   image_build_progress, hist>>
    /\ UNCHANGED <<images, store_images, api_images, resp, fresh>>
    /\ UNCHANGED othersI
    /\ UNCHANGED <<clones, destroys>>
    /\ UNCHANGED <<allocVars, connVars, bootVars, concVars, cycleVars, daemon_pc,
                   netVars, taskVars>>

\* the task's match on the build result: add_image and the Complete record,
\* or the Failed record, both under the id of the 202 reply
TaskFinish(dbok) ==
    /\ build_pc \in {"finish_ok", "finish_err"}
    /\ LET n == Len(built.dockerfile)
           ok == /\ build_pc = "finish_ok"
                 /\ dbok
                 /\ built.id \notin DOMAIN store_images
                 /\ \A i \in DOMAIN store_images : store_images[i].name # built.name
       IN /\ store_images' = IF ok THEN MapPut(store_images, built.id, built) ELSE store_images
          /\ images' = IF ok THEN MapPut(images, built.id, built) ELSE images
          /\ api_images' = IF ok THEN api_images \cup {built.id} ELSE api_images
          /\ image_build_progress' =
                 MapPut(image_build_progress, build_id,
                        IF build_pc = "finish_ok"
                        THEN [status |-> "Complete", step |-> n, total_steps |-> n]
                        ELSE [status |-> "Failed", step |-> 0, total_steps |-> 0])
    /\ build_pc' = "done"
    /\ UNCHANGED <<build_id, build_req, instructions, step, builder_chan, handler_chan,
                   built, hist>>
    /\ UNCHANGED <<next_uuid, resp, fresh>>
    /\ UNCHANGED othersI
    /\ UNCHANGED notBuild

\* the forwarding task of build_image: progress_rx.recv() into the record
Forward ==
    /\ handler_chan # << >>
    /\ handler_chan' = Tail(handler_chan)
    /\ image_build_progress' =
           IF build_id \in DOMAIN image_build_progress
           THEN MapPut(image_build_progress, build_id, Head(handler_chan))
           ELSE image_build_progress
    /\ UNCHANGED <<build_pc, build_id, build_req, instructions, step, builder_chan,
                   built, hist>>
    /\ UNCHANGED <<mgrVars, notBuild>>

\* GET images/{x}/history: handler get_image_history
GetImageHistory(x) ==
    /\ LET id == resolve(images, x, TRUE)
           df == IF id = "" THEN << >> ELSE images[id].dockerfile
       IN hist' = [x |-> x,
                   status |-> IF id = "" THEN 404 ELSE 200,
                   created_by |-> [i \in DOMAIN df |-> df[i][1] \o " " \o df[i][2]],
                   after |-> build_pc = "done"]
    /\ UNCHANGED <<build_pc, build_id, build_req, instructions, step, builder_chan,
                   handler_chan, image_build_progress, built>>
    /\ UNCHANGED <<mgrVars, notBuild>>

NextBuild ==
    \/ \E name \in ImageNames \cup {""}, df \in Dockerfiles : BuildImage(name, df)
    \/ \E zfsok, dsok \in BOOLEAN : TaskBegin(zfsok, dsok)
    \/ report_progress
    \/ \E ok \in BOOLEAN : TaskExec(ok)
    \/ \E fsok \in BOOLEAN : RunFallback(fsok)
    \/ \E ok \in BOOLEAN : TaskSnapshot(ok)
    \/ \E dbok \in BOOLEAN : TaskFinish(dbok)
    \/ Forward
    \/ \E x \in {Uuid(n) : n \in 1..MaxUuid} \cup ImageNames : GetImageHistory(x)

SpecBuild == InitRoot /\ [][NextBuild]_vars

\* C7: a build task, once started, is never held up by progress reporting:
\* it is never waiting to send a progress report into a full channel.
\* (Nothing receives from builder_chan, so a task found waiting on the full
\* channel waits for ever and reaches neither Complete nor Failed.)
C7_ProgressNeverBlocksTask ==
    ~(build_pc \in {"report", "report_complete"} /\ Len(builder_chan) >= ChannelCapacity)

\* C9: the 202 reply is given before the build has run, and once the build
\* has succeeded and its image is stored, GET images/<build-id>/history with
\* the id of the 202 reply returns that image (for FROM scratch + RUN echo hi:
\* no parent and exactly one instruction, RUN echo hi).
C9_HistoryFoundByBuildId ==
    /\ build_pc = "spawned" => resp = Reply("build_image", 202)
    /\ ( /\ build_pc = "done"
         /\ image_build_progress[build_id].status = "Complete"
         /\ built.id \in DOMAIN images
         /\ hist.x = build_id
         /\ hist.after )
       => /\ hist.status = 200
          /\ images[built.id].parent_id = "null"
          /\ build_req.dockerfile = <<<<"FROM", "scratch">>, <<"RUN", "echo hi">>>>
                 => hist.created_by = <<"RUN echo hi">>

(***************************************************************************)
(* handler.rs bootstrap_jail and its background task; bootstrap.rs         *)
(***************************************************************************)
\* chunks in which the body of the tarball arrives, each of one unit
MaxChunks == 3

\* download_file reporting the whole download as 0..100
download_percent_of_total(downloaded, total_size) ==
    ((downloaded * 100) \div total_size) % 256

\* download_file: `10 + (downloaded * 35 / total_size) as u8`
download_percent(downloaded, total_size) ==
    10 + (((downloaded * 35) \div total_size) % 256)

\* the reports of Bootstrap::run, in order: run, download_and_verify with
\* one report of download_file per chunk, extract_tarball,
\* create_config_files
BootstrapStages ==
    <<[status |-> "Initializing", progress |-> 0],
      [status |-> "Downloading", progress |-> 10]>>
    \o [i \in 1..MaxChunks |->
           [status |-> "Downloading", progress |-> download_percent(i, MaxChunks)]]
    \o <<[status |-> "Verifying", progress |-> 50],
          [status |-> "Verifying", progress |-> 60],
          [status |-> "Extracting", progress |-> 65],
          [status |-> "Extracting", progress |-> 90],
          [status |-> "Configuring", progress |-> 92],
          [status |-> "Configuring", progress |-> 98],
          [status |-> "Complete", progress |-> 100]>>

\* POST jails/{name}/bootstrap: handler bootstrap_jail up to its 202 reply
BootstrapJail(name) ==
    /\ IF name \notin DOMAIN jails
       THEN /\ resp' = Reply("bootstrap_jail", 404)
            /\ UNCHANGED bootVars
       ELSE IF name \in bootstrapped
       THEN /\ resp' = Reply("bootstrap_jail", 409)
            /\ UNCHANGED bootVars
       ELSE /\ boot_pc \in {"idle", "done"}
            /\ boot_chan = << >>
            /\ boot_pc' = "spawned"
            /\ boot_name' = name
            /\ boot_stage' = 1
            /\ boot_result' = "none"
            /\ resp' = Reply("bootstrap_jail", 202)
            /\ UNCHANGED <<boot_chan, bootstrap_progress, bootstrapped>>
    /\ fresh' = FALSE
    /\ UNCHANGED <<jails, store_jails, kernel, next_jid, api_jails>>
    /\ UNCHANGED othersJ
    /\ UNCHANGED notBoot

\* the background task up to Bootstrap::run: register_bootstrap_tracker
\* stores the first record, then Bootstrap::new
TaskRegister(newok) ==
    /\ boot_pc = "spawned"
    /\ bootstrap_progress' = MapPut(bootstrap_progress, boot_name, [status |-> "Initializing", progress |-> 0])
    /\ boot_pc' = IF newok THEN "running" ELSE "done"
    /\ boot_result' = IF newok THEN "none" ELSE "err"
    /\ UNCHANGED <<boot_name, boot_stage, boot_chan, bootstrapped>>
    /\ UNCHANGED <<mgrVars, notBoot>>

\* one stage of Bootstrap::run: a failing stage returns Err through `?`,
\* which the task only logs; a stage that succeeds reports its status with
\* try_send, which drops the report when the channel is full
BootstrapRun(ok) ==
    /\ boot_pc = "running"
    /\ LET report == BootstrapStages[boot_stage]
           status == report.status
       IN IF ~ok /\ status # "Complete"
          THEN /\ boot_pc' = "done"
               /\ boot_result' = "err"
               /\ UNCHANGED <<boot_stage, boot_chan, bootstrapped>>
          ELSE /\ boot_chan' = IF Len(boot_chan) < ChannelCapacity
                               THEN Append(boot_chan, report) ELSE boot_chan
               /\ bootstrapped' = IF report.progress = 90
                                  THEN bootstrapped \cup {boot_name} ELSE bootstrapped
               /\ boot_pc' = IF status = "Complete" THEN "done" ELSE "running"
               /\ boot_result' = IF status = "Complete" THEN "ok" ELSE "none"
               /\ boot_stage' = IF status = "Complete" THEN boot_stage ELSE boot_stage + 1
    /\ UNCHANGED <<boot_name, bootstrap_progress>>
    /\ UNCHANGED <<mgrVars, notBoot>>

\* a forwarding task that takes the newest report of the channel first
BootstrapForward_newest_first ==
    /\ boot_chan # << >>
    /\ boot_chan' = SubSeq(boot_chan, 1, Len(boot_chan) - 1)
    /\ bootstrap_progress' =
           IF boot_name \in DOMAIN bootstrap_progress
           THEN MapPut(bootstrap_progress, boot_name, boot_chan[Len(boot_chan)])
           ELSE bootstrap_progress
    /\ UNCHANGED <<boot_pc, boot_name, boot_stage, boot_result, bootstrapped>>
    /\ UNCHANGED <<mgrVars, notBoot>>

\* the forwarding task of bootstrap_jail
BootstrapForward ==
    /\ boot_chan # << >>
    /\ boot_chan' = Tail(boot_chan)
    /\ bootstrap_progress' =
           IF boot_name \in DOMAIN bootstrap_progress
           THEN MapPut(bootstrap_progress, boot_name, Head(boot_chan))
           ELSE bootstrap_progress
    /\ UNCHANGED <<boot_pc, boot_name, boot_stage, boot_result, bootstrapped>>
    /\ UNCHANGED <<mgrVars, notBoot>>

NextBoot ==
    \/ \E name \in JailNames : CreateJail(name)
    \/ \E name \in JailNames : BootstrapJail(name)
    \/ \E newok \in BOOLEAN : TaskRegister(newok)
    \/ \E ok \in BOOLEAN : BootstrapRun(ok)
    \/ BootstrapForward

SpecBoot == InitRoot /\ [][NextBoot]_vars

\* C8: a failed bootstrap or build becomes visible in its progress record:
\* once the task has ended in failure and every report it sent has been
\* forwarded, the record of that jail or build shows Failed.
C8_FailureShowsFailed ==
    /\ (boot_pc = "done" /\ boot_result = "err" /\ boot_chan = << >>)
           => bootstrap_progress[boot_name].status = "Failed"
    /\ (build_pc = "done" /\ built = NoImage /\ handler_chan = << >>)
           => image_build_progress[build_id].status = "Failed"

(***************************************************************************)
(* handler.rs create_jail on concurrent connections                        *)
(***************************************************************************)
\* connections sending one create_jail request each
MaxClients == 3

InitConc ==
    /\ conc_pc = [c \in 1..MaxClients |-> "idle"]
    /\ conc_name = [c \in 1..MaxClients |-> ""]
    /\ conc_resp = [c \in 1..MaxClients |-> 0]
    /\ lock_holder = 0
    /\ InitMgr
    /\ is_root = TRUE
    /\ Idle({"conc"})

mgrButJails == <<store_jails, kernel, next_jid, images, store_images, containers,
                 store_containers, next_uuid, is_root, api_images, api_containers, resp>>

\* a request passes validate() and reaches manager.lock().await
ConcRequest(c, name) ==
    /\ conc_pc[c] = "idle"
    /\ conc_pc' = [conc_pc EXCEPT ![c] = "waiting"]
    /\ conc_name' = [conc_name EXCEPT ![c] = name]
    /\ UNCHANGED <<conc_resp, lock_holder>>
    /\ UNCHANGED <<mgrVars, notConc>>

\* a lock() that hands the guard out while another handler holds it
ConcLockShared(c) ==
    /\ conc_pc[c] = "waiting"
    /\ lock_holder' = c
    /\ conc_pc' = [conc_pc EXCEPT ![c] = "locked"]
    /\ UNCHANGED <<conc_name, conc_resp>>
    /\ UNCHANGED <<mgrVars, notConc>>

\* manager.lock().await returns the guard once nobody holds it
ConcLock(c) ==
    /\ conc_pc[c] = "waiting"
    /\ lock_holder = 0
    /\ lock_holder' = c
    /\ conc_pc' = [conc_pc EXCEPT ![c] = "locked"]
    /\ UNCHANGED <<conc_name, conc_resp>>
    /\ UNCHANGED <<mgrVars, notConc>>

\* mgr.get_jail(&request.name).is_some(): 409, dropping the guard
ConcCheck(c) ==
    /\ conc_pc[c] = "locked"
    /\ IF conc_name[c] \in DOMAIN jails
       THEN /\ conc_resp' = [conc_resp EXCEPT ![c] = 409]
            /\ conc_pc' = [conc_pc EXCEPT ![c] = "done"]
            /\ lock_holder' = 0
       ELSE /\ conc_pc' = [conc_pc EXCEPT ![c] = "insert"]
            /\ UNCHANGED <<conc_resp, lock_holder>>
    /\ UNCHANGED conc_name
    /\ UNCHANGED <<mgrVars, notConc>>

\* Jail::create, mgr.jails.insert and the 201 reply, dropping the guard
ConcInsert(c) ==
    /\ conc_pc[c] = "insert"
    /\ jails' = MapPut(jails, conc_name[c], Jail_create)
    /\ api_jails' = api_jails \cup {conc_name[c]}
    /\ fresh' = FALSE
    /\ conc_resp' = [conc_resp EXCEPT ![c] = 201]
    /\ conc_pc' = [conc_pc EXCEPT ![c] = "done"]
    /\ lock_holder' = 0
    /\ UNCHANGED conc_name
    /\ UNCHANGED <<mgrButJails, notConc>>

NextConc ==
    \/ \E c \in 1..MaxClients, name \in JailNames : ConcRequest(c, name)
    \/ \E c \in 1..MaxClients : ConcLock(c)
    \/ \E c \in 1..MaxClients : ConcCheck(c)
    \/ \E c \in 1..MaxClients : ConcInsert(c)

SpecConc == InitConc /\ [][NextConc]_vars

\* C10: creates on concurrent connections behave as if run one at a time:
\* of the creates of one name at most one is answered 201, a 409 is given
\* only when another create of that name was answered 201, every jail
\* answered 201 is in the manager's map, and once all requests are answered
\* each got 201 or 409 and the map holds exactly the names asked for.
C10_ConcurrentCreatesLinearizable ==
    /\ \A c, d \in 1..MaxClients :
           (conc_resp[c] = 201 /\ conc_resp[d] = 201 /\ conc_name[c] = conc_name[d]) => c = d
    /\ \A c \in 1..MaxClients : conc_resp[c] = 201 => conc_name[c] \in DOMAIN jails
    /\ \A c \in 1..MaxClients : conc_resp[c] = 409 =>
           \E d \in (1..MaxClients) \ {c} : conc_name[d] = conc_name[c] /\ conc_resp[d] = 201
    /\ (\A c \in 1..MaxClients : conc_pc[c] = "done") =>
           /\ \A c \in 1..MaxClients : conc_resp[c] \in {201, 409}
           /\ DOMAIN jails = {conc_name[c] : c \in 1..MaxClients}

\* three answered creates: two of one name, one of another
C10_Witness ==
    /\ \A c \in 1..MaxClients : conc_pc[c] = "done"
    /\ \E c, d \in 1..MaxClients : /\ c # d
                             /\ conc_name[c] = conc_name[d]
                             /\ conc_resp[c] = 201
                             /\ conc_resp[d] = 409
    /\ Cardinality(DOMAIN jails) = 2

(***************************************************************************)
(* Store failures during state transitions                                 *)
(***************************************************************************)
\* C11: a store write failure during a container start or stop is only
\* logged: whenever the request has made its in-memory state transition, it
\* is answered with success.
C11_StoreFailureOnlyLogged ==
    [][(resp'.op \in {"start_container", "stop_container"} /\ containers' # containers)
           => resp'.status = 200]_vars

\* C12: when save_state fails during allocate() or allocate_specific() the
\* call returns the error and the allocation is rolled back: the address the
\* call had picked is not left in the allocated set.
C12_FailedSaveRollsBack ==
    ( /\ ret.op \in {"allocate", "allocate_specific"}
      /\ ~ret.ok
      /\ ret.ip # << >>
      /\ is_in_network(ret.ip)
      /\ ~ret.was_allocated )
    => ret.ip \notin allocated_ips

\* C13: allocate() fails with IpExhausted exactly when the pool is full:
\* whenever some host offset in 2..65534 is unallocated, whatever the cursor,
\* a call returns an address that was free (or the error of a failed write
\* of the state file), and when none is unallocated it returns IpExhausted.
C13_ExhaustedExactlyWhenFull ==
    [][(ret'.op = "allocate" /\ ret'.error # "IoError") =>
           IF \E o \in 2..65534 : ~contains(allocated_ips, offset_to_ip(o))
           THEN ret'.ok /\ ~ret'.was_allocated /\ ~contains(allocated_ips, ret'.ip)
           ELSE ret'.error = "IpExhausted"]_vars


(***************************************************************************)
(* Properties of images and their snapshots                                *)
(***************************************************************************)
\* C14: every image of the manager (add_image only ever receives Available
\* images) has its snapshot in the pool, whatever builds, removals and
\* restarts came before.
C14_AvailableImageHasSnapshot ==
    \A id \in DOMAIN images : id \in snapshots

\* C15: remove_image never issues the recursive destroy on the snapshot of
\* an image while a container created from that image exists.
C15_NoDestroyUnderContainer ==
    \A d \in destroys : d.dependents = {}

C17_StartedAtRetained ==
    [][\A k \in DOMAIN containers' :
           /\ containers'[k].state = "Running" => containers'[k].started_at
           /\ \A j \in DOMAIN containers :
                  (containers[j].id = containers'[k].id /\ containers[j].started_at)
                      => containers'[k].started_at]_vars

(***************************************************************************)
(* jail.rs: the life cycle of one Jail object                              *)
(***************************************************************************)
MaxOps == 5

\* what the mutations of the cycle leave alone
othersCycle == <<zfsVars, allocVars, connVars, buildVars, bootVars, concVars, daemon_pc,
          netVars, taskVars>>

\* Jail::create(name)
CycleCreate ==
    /\ Len(ops) < MaxOps
    /\ cyc_jail' = Jail_create
    /\ ops' = Append(ops, [op |-> "Create", env |-> "ok", ok |-> TRUE, jail |-> Jail_create])
    /\ UNCHANGED <<cyc_name, mgrVars, othersCycle>>

\* jail.start()
CycleStart(outcome) ==
    /\ Len(ops) < MaxOps
    /\ cyc_jail.state # "none"
    /\ LET r == Jail_start(cyc_jail, cyc_name, kernel, next_jid, outcome)
       IN /\ cyc_jail' = r.jail
          /\ kernel' = r.kernel
          /\ next_jid' = IF r.kernel = kernel THEN next_jid ELSE next_jid + 1
          /\ ops' = Append(ops, [op |-> "Start", env |-> outcome, ok |-> r.ok, jail |-> r.jail])
    /\ UNCHANGED <<jails, store_jails, images, store_images, containers, store_containers,
                   next_uuid, is_root, fresh, api_jails, api_images, api_containers, resp>>
    /\ UNCHANGED <<cyc_name, othersCycle>>

\* jail.stop()
CycleStop ==
    /\ Len(ops) < MaxOps
    /\ cyc_jail.state # "none"
    /\ LET r == Jail_stop(cyc_jail, kernel)
       IN /\ cyc_jail' = r.jail
          /\ kernel' = r.kernel
          /\ ops' = Append(ops, [op |-> "Stop", env |-> "ok", ok |-> r.ok, jail |-> r.jail])
    /\ UNCHANGED <<jails, store_jails, next_jid, images, store_images, containers,
                   store_containers, next_uuid, is_root, fresh, api_jails, api_images,
                   api_containers, resp>>
    /\ UNCHANGED <<cyc_name, othersCycle>>

InitCycle ==
    /\ InitMgr
    /\ Idle({"cycle"})
    /\ cyc_name \in JailNames
    /\ cyc_jail = [jid |-> -1, state |-> "none"]
    /\ ops = << >>

NextCycle ==
    \/ CycleCreate
    \/ \E o \in StartOutcomes : CycleStart(o)
    \/ CycleStop

SpecCycle == InitCycle /\ [][NextCycle]_vars

\* C18: as root and with every external step succeeding, the calls Create,
\* Start, Stop, Start, Stop all succeed, and the jail is then in the state
\* and has the jid it had after the first three, Create, Start, Stop.
C18_SecondCycleSameEnd ==
    ( /\ is_root
      /\ Len(ops) >= 5
      /\ [i \in 1..5 |-> ops[i].op] = <<"Create", "Start", "Stop", "Start", "Stop">>
      /\ \A i \in 1..5 : ops[i].env = "ok" )
    => /\ \A i \in 1..5 : ops[i].ok
       /\ ops[5].jail.state = ops[3].jail.state
       /\ ops[5].jail.jid = ops[3].jail.jid

C18_Witness ==
    /\ is_root
    /\ Len(ops) >= 5
    /\ [i \in 1..5 |-> ops[i].op] = <<"Create", "Start", "Stop", "Start", "Stop">>
    /\ \A i \in 1..5 : ops[i].env = "ok" /\ ops[i].ok
    /\ cyc_jail = [jid |-> -1, state |-> "Stopped"]

(***************************************************************************)
(* api.rs and handler.rs: from the request line to the handler             *)
(***************************************************************************)
\* Request::parse_endpoint on the images and containers paths; parts is the
\* endpoint string split at '/'
parse_endpoint(method, parts) ==
    LET n == Len(parts)
        getdel == method \in {"GET", "DELETE"}
    IN IF parts = <<"images">> THEN [kind |-> "Images", id |-> ""]
       ELSE IF parts = <<"images", "build">> THEN [kind |-> "ImageBuild", id |-> ""]
       ELSE IF n = 2 /\ parts[1] = "images" /\ getdel THEN [kind |-> "Image", id |-> parts[2]]
       ELSE IF n = 3 /\ parts[1] = "images" /\ parts[3] = "history"
       THEN [kind |-> "ImageHistory", id |-> parts[2]]
       ELSE IF parts = <<"containers">> THEN [kind |-> "Containers", id |-> ""]
       ELSE IF parts = <<"containers", "create">> THEN [kind |-> "ContainerCreate", id |-> ""]
       ELSE IF n = 2 /\ parts[1] = "containers" /\ getdel
       THEN [kind |-> "Container", id |-> parts[2]]
       ELSE IF n = 3 /\ parts[1] = "containers" /\ parts[3] = "start"
       THEN [kind |-> "StartContainer", id |-> parts[2]]
       ELSE IF n = 3 /\ parts[1] = "containers" /\ parts[3] = "stop"
       THEN [kind |-> "StopContainer", id |-> parts[2]]
       ELSE [kind |-> "BadRequest", id |-> ""]

\* handle_request for GET and DELETE on images/{id} and containers/{id}: the
\* match on (method, endpoint), with the handlers get_image, delete_image,
\* get_container and remove_container behind its arms
handle_request(method, parts) ==
    LET ep == parse_endpoint(method, parts)
        line == method \o " " \o parts[1] \o "/" \o parts[2]
        only(status) == /\ resp' = Reply(line, status)
                        /\ fresh' = FALSE
                        /\ UNCHANGED <<jails, store_jails, kernel, next_jid, images,
                                       store_images, containers, store_containers, next_uuid,
                                       is_root, api_jails, api_images, api_containers>>
                        /\ UNCHANGED notMgr
    IN IF method = "GET" /\ ep.kind = "Image"
       THEN only(IF resolve(images, ep.id, TRUE) # "" THEN 200 ELSE 404)
       ELSE IF method = "DELETE" /\ ep.kind = "DeleteImage"
       THEN \E cmdok \in BOOLEAN, dbok \in BOOLEAN : DeleteImage(ep.id, cmdok, dbok)
       ELSE IF method = "GET" /\ ep.kind = "Container"
       THEN only(IF resolve(containers, ep.id, FALSE) # "" THEN 200 ELSE 404)
       ELSE IF method = "DELETE" /\ ep.kind = "RemoveContainer"
       THEN \E dbok \in BOOLEAN : RemoveContainer(ep.id, FALSE, dbok)
       ELSE only(400)

\* names a client may give its containers: any string, also one that is
\* the beginning of an id
ApiNames == ContainerNames \cup {Short(MaxUuid)}

\* the daemon started on a database that holds one image and some
\* containers created from it
InitApi ==
    /\ jails = EmptyMap
    /\ store_jails = EmptyMap
    /\ kernel = EmptyMap
    /\ next_jid = 1
    /\ store_images = MapPut(EmptyMap, Uuid(1), [id |-> Uuid(1), name |-> "img"])
    /\ images = store_images
    /\ \E ks \in SUBSET (2..MaxUuid) : \E nm \in [ks -> ApiNames] :
           /\ \A a \in ks, b \in ks : nm[a] = nm[b] => a = b
           /\ store_containers =
                  [k \in {Uuid(n) : n \in ks} |->
                      LET n == CHOOSE n \in ks : Uuid(n) = k
                      IN [id |-> k, name |-> nm[n], image_id |-> Uuid(1),
                          jail_name |-> JailNameOf(n), dataset |-> Short(n),
                          state |-> "Created", started_at |-> FALSE]]
    /\ containers = store_containers
    /\ next_uuid = MaxUuid + 1
    /\ is_root = TRUE
    /\ fresh = TRUE
    /\ api_jails = {}
    /\ api_images = DOMAIN images
    /\ api_containers = DOMAIN containers
    /\ resp = NoResp
    /\ snapshots = {Uuid(1)}
    /\ clones = [d \in {containers[k].dataset : k \in DOMAIN containers} |-> Uuid(1)]
    /\ destroys = {}
    /\ daemon_pc = "serving"
    /\ move_pc = "idle"
    /\ attempt = 0
    /\ delay = 0
    /\ waits = << >>
    /\ anchor = {}
    /\ forwards = {}
    /\ boot_tasks = << >>
    /\ bootstrap_tracker = EmptyMap
    /\ Idle({})

NextApi ==
    \E method \in {"GET", "DELETE"}, kind \in {"images", "containers"}, x \in Refs \cup ApiNames :
        handle_request(method, <<kind, x>>)

SpecApi == InitApi /\ [][NextApi]_vars

\* C19: a DELETE request for an existing image, or for an existing
\* container that is not Running, is answered with success, and afterwards
\* the same {id} resolves to nothing.
C19_DeleteIsDispatched ==
    [][\A x \in Refs \cup ApiNames :
           /\ (resp'.op = "DELETE images/" \o x /\ resolve(images, x, TRUE) # "")
                  => (resp'.status = 200 /\ resolve(images', x, TRUE) = "")
           /\ ( /\ resp'.op = "DELETE containers/" \o x
                /\ \E k \in DOMAIN containers :
                       /\ containers[k].id = resolve(containers, x, FALSE)
                       /\ containers[k].state # "Running" )
                  => (resp'.status = 200 /\ resolve(containers', x, FALSE) = "")]_vars

\* C20: whatever {id} a request carries, the handlers for images and the
\* handlers for containers (get, start, stop, remove) take the exact id
\* first, then an exact name, and an id prefix only when no name matches.
C20_IdThenNameThenPrefix ==
    \A x \in Refs \cup ApiNames :
        /\ (x \notin DOMAIN images /\ \E k \in DOMAIN images : images[k].name = x)
               => \E k \in DOMAIN images :
                      images[k].name = x /\ resolve(images, x, TRUE) = images[k].id
        /\ (x \notin DOMAIN containers /\ \E k \in DOMAIN containers : containers[k].name = x)
               => \E k \in DOMAIN containers :
                      containers[k].name = x /\ resolve(containers, x, FALSE) = containers[k].id

\* C21: while the client is connected the loop of handle_connection never
\* ends in an error: every frame taken from the stream, valid request or
\* not, has been answered when the loop waits for the next one, and an
\* invalid frame has been answered with 400.
C21_InvalidFrameGets400 ==
    client_open =>
        /\ conn_pc # "error"
        /\ conn_pc = "next" => Len(replies) = sent - Len(conn_in)
        /\ \A i \in 1..Len(replies) : read_log[i] # "request" => replies[i] = 400

(***************************************************************************)
(* bin/kawakaze-backend.rs and JailManager::stop: the end of the daemon    *)
(***************************************************************************)
\* JailManager::stop: every Running jail is stopped, the result ignored
ManagerStop ==
    /\ daemon_pc = "serving"
    /\ daemon_pc' = "stopped"
    /\ jails' = [n \in DOMAIN jails |->
                    IF jails[n].state = "Running" THEN Jail_stop(jails[n], kernel).jail
                    ELSE jails[n]]
    /\ kernel' = [n \in {x \in DOMAIN kernel :
                            \A j \in DOMAIN jails :
                                jails[j].state = "Running" /\ is_root => jails[j].jid # kernel[x]}
                    |-> kernel[n]]
    /\ UNCHANGED <<store_jails, next_jid, images, store_images, containers, store_containers,
                   next_uuid, is_root, fresh, api_jails, api_images, api_containers, resp>>
    /\ UNCHANGED <<zfsVars, allocVars, connVars, buildVars, bootVars, concVars, cycleVars,
                   netVars, taskVars>>

\* main: start(), then server.run(), whose accept loop never returns; the
\* process ends when a signal ends it, or after a caller's stop()
ProcessExit ==
    /\ daemon_pc \in {"serving", "stopped"}
    /\ daemon_pc' = "exited"
    /\ UNCHANGED <<mgrVars, zfsVars, allocVars, connVars, buildVars, bootVars, concVars,
                   cycleVars, netVars, taskVars>>

NextDaemon ==
    \/ daemon_pc = "serving" /\ \E n \in JailNames : CreateJail(n)
    \/ daemon_pc = "serving" /\ \E n \in JailNames, o \in StartOutcomes : StartJail(n, o, TRUE)
    \/ daemon_pc = "serving" /\ \E n \in JailNames : StopJail(n, TRUE)
    \/ ManagerStop
    \/ ProcessExit

SpecDaemon == InitRoot /\ [][NextDaemon]_vars

\* C22: once the daemon process has exited, no jail it was running is
\* left running (stops that fail apart: every jail recorded as Running whose
\* JID is live has been stopped).
C22_ShutdownStopsJails ==
    daemon_pc = "exited" =>
        \A n \in DOMAIN jails :
            ~(jails[n].state = "Running" /\ \E k \in DOMAIN kernel : kernel[k] = jails[n].jid)

\* C23: when the child of a RUN instruction has exited with a non-zero
\* status, the next step of the build task is the failure of the build
\* (which publishes no image).
C23_FailedRunFailsBuild ==
    [][(build_pc = "run_fallback" /\ build_pc' # build_pc) => build_pc' = "finish_err"]_vars

validate(name) ==
    LET is_alphanumeric(c) == c \in {"a", "Z", "7", "U+00E9"}
    IN /\ name # << >>
       /\ \A i \in 1..Len(name) : is_alphanumeric(name[i]) \/ name[i] = "_" \/ name[i] = "-"

\* the handler without the test for an existing jail
create_jail_unchecked(m, name) ==
    IF ~validate(name) THEN [status |-> 400, m |-> m]
    ELSE [status |-> 201, m |-> [m EXCEPT !.jails = MapPut(m.jails, name, Jail_create)]]

\* handler create_jail
create_jail(m, name) ==
    IF ~validate(name) THEN [status |-> 400, m |-> m]
    ELSE IF name \in DOMAIN m.jails THEN [status |-> 409, m |-> m]
    ELSE [status |-> 201, m |-> [m EXCEPT !.jails = MapPut(m.jails, name, Jail_create)]]

\* handle_request for POST jails, GET jails/{name} and DELETE jails/{name}
JailRequest(method) ==
    /\ Len(ops) < MaxOps
    /\ LET r == IF method = "POST" THEN create_jail(M, cyc_name)
                ELSE IF method = "GET"
                THEN [status |-> IF cyc_name \in DOMAIN jails THEN 200 ELSE 404, m |-> M]
                ELSE remove_jail(M, cyc_name, TRUE)
       IN /\ SetM(r.m)
          /\ api_jails' = IF r.status = 201 THEN api_jails \cup {cyc_name}
                          ELSE IF method = "DELETE" THEN api_jails \ {cyc_name}
                          ELSE api_jails
          /\ resp' = Reply(method, r.status)
          /\ ops' = Append(ops, [op |-> method, status |-> r.status,
                                 jail |-> IF cyc_name \in DOMAIN r.m.jails
                                          THEN r.m.jails[cyc_name]
                                          ELSE [jid |-> -1, state |-> "none"]])
    /\ fresh' = FALSE
    /\ UNCHANGED <<images, store_images, containers, store_containers, next_uuid, is_root,
                   api_images, api_containers>>
    /\ UNCHANGED <<cyc_name, cyc_jail, othersCycle>>

InitLife ==
    /\ InitMgr
    /\ Idle({"cycle"})
    /\ cyc_name \in {<< >>, <<"a">>, <<"a", "_", "Z", "-", "7">>, <<"a", " ">>, <<"a", "!">>,
                     <<"a", ".", "Z">>, <<"U+00E9">>, <<"a", "U+00E9">>}
    /\ cyc_jail = [jid |-> -1, state |-> "none"]
    /\ ops = << >>

NextLife == \E method \in {"POST", "GET", "DELETE"} : JailRequest(method)

SpecLife == InitLife /\ [][NextLife]_vars

\* C25: on an unused valid name, POST answers 201, a second POST 409 with
\* the jail as it was, GET 200 with jid -1 and state Created, DELETE 200
\* and a following GET 404.
C25_CreateDuplicateGetDelete ==
    (/\ validate(cyc_name)
     /\ Len(ops) >= 5
     /\ [i \in 1..5 |-> ops[i].op] = <<"POST", "POST", "GET", "DELETE", "GET">>)
        => /\ [i \in 1..5 |-> ops[i].status] = <<201, 409, 200, 200, 404>>
           /\ \A i \in 1..3 : ops[i].jail = [jid |-> -1, state |-> "Created"]
           /\ ops[4].jail.state = "none"

C25_Witness ==
    /\ validate(cyc_name)
    /\ Len(ops) = 5
    /\ [i \in 1..5 |-> ops[i].op] = <<"POST", "POST", "GET", "DELETE", "GET">>
    /\ ops[5].status = 404

\* C26: a POST with a name that is empty or holds a character outside
\* [A-Za-z0-9_-] is answered 400 and creates no jail.
C26_BadNameRejected ==
    (cyc_name = << >> \/ \E i \in 1..Len(cyc_name) : cyc_name[i] \notin {"a", "Z", "7", "_", "-"})
        => /\ jails = EmptyMap
           /\ \A i \in 1..Len(ops) : ops[i].op = "POST" => ops[i].status = 400

\* C29: a jail created through the API has its row in the store.
C29_ApiJailHasRow == \A n \in api_jails : n \in DOMAIN store_jails

\* C27: a build whose Dockerfile has a first non-blank, non-comment line
\* that is no FROM ends in a parse error: no instruction of it is run and
\* no image is built.
C27_NonFromFirstRejected ==
    LET real == SelectSeq(build_req.dockerfile, LAMBDA l : l[1] \notin {"", "#"})
    IN (build_pc \notin {"idle", "spawned"} /\ real # << >> /\ real[1][1] # "FROM")
           => /\ ~parse_dockerfile(build_req.dockerfile).ok
              /\ build_pc \in {"finish_err", "done"}
              /\ built = NoImage

(***************************************************************************)
(* handler.rs start_jail: the guard of the manager mutex and the commands  *)
(* run under it                                                            *)
(***************************************************************************)
\* manager.lock().await and mgr.start_jail(name) up to the first command
\* Jail::start runs (jail -c, mount -t devfs); without a command the call
\* returns at once and the guard is dropped with the reply
StartJailCall(c, name) ==
    /\ conc_pc[c] = "idle"
    /\ lock_holder = 0
    /\ conc_name' = [conc_name EXCEPT ![c] = name]
    /\ IF name \in DOMAIN jails /\ jails[name].state # "Running" /\ is_root
       THEN /\ lock_holder' = c
            /\ conc_pc' = [conc_pc EXCEPT ![c] = "child"]
            /\ UNCHANGED <<conc_resp, resp>>
       ELSE /\ conc_resp' = [conc_resp EXCEPT ![c] = start_jail(M, name, "ok", TRUE).status]
            /\ resp' = Reply("start_jail", start_jail(M, name, "ok", TRUE).status)
            /\ conc_pc' = [conc_pc EXCEPT ![c] = "done"]
            /\ UNCHANGED lock_holder
    /\ UNCHANGED <<jails, store_jails, kernel, next_jid, images, store_images, containers,
                   store_containers, next_uuid, is_root, fresh, api_jails, api_images,
                   api_containers>>
    /\ UNCHANGED notConc

\* Command::output() returns: the rest of mgr.start_jail, the reply, and the
\* guard dropped at the end of the handler
StartJailWait(c, outcome, dbok) ==
    /\ conc_pc[c] = "child"
    /\ LET r == start_jail(M, conc_name[c], outcome, dbok)
       IN /\ SetM(r.m)
          /\ conc_resp' = [conc_resp EXCEPT ![c] = r.status]
          /\ resp' = Reply("start_jail", r.status)
    /\ conc_pc' = [conc_pc EXCEPT ![c] = "done"]
    /\ lock_holder' = 0
    /\ fresh' = FALSE
    /\ UNCHANGED <<conc_name, images, store_images, containers, store_containers, next_uuid,
                   is_root, api_jails, api_images, api_containers>>
    /\ UNCHANGED notConc

NextLock ==
    \/ lock_holder = 0 /\ \E n \in JailNames, dbok \in BOOLEAN : AddJail(n, dbok)
    \/ \E c \in 1..MaxClients, n \in JailNames : StartJailCall(c, n)
    \/ \E c \in 1..MaxClients, o \in StartOutcomes, dbok \in BOOLEAN : StartJailWait(c, o, dbok)

SpecLock == InitConc /\ [][NextLock]_vars

\* C28: no handler waits for a child process while it holds the manager
\* mutex.
C28_NoLockAcrossChildWait ==
    \A c \in 1..MaxClients : conc_pc[c] = "child" => lock_holder # c

C31_OnlyHostOffsets ==
    (ret.ok /\ ret.op \in {"allocate", "allocate_specific"})
        => /\ is_in_network(ret.ip)
           /\ ret.ip[3] * 256 + ret.ip[4] \in 2..65534

(***************************************************************************)
(* networking.rs: NetworkManager, the move of an epair into a VNET jail    *)
(* and the redirect rules of pf                                            *)
(***************************************************************************)
MAX_ATTEMPTS == 10

\* what one `ifconfig <epair> -vnet <jail>` can come to: the command cannot
\* be run, it succeeds, it fails with "Device not configured" in its
\* stderr, it fails with another message
IfconfigOutcomes == {"spawn_failed", "success", "not_configured", "other"}

\* move_epair_to_vnet_jail up to the loop: the first sleep and the first
\* value of delay
MoveStart ==
    /\ move_pc \in {"idle", "ok", "err"}
    /\ move_pc' = "try"
    /\ attempt' = 1
    /\ delay' = 500
    /\ waits' = <<[ms |-> 500, after |-> "start"]>>
    /\ UNCHANGED <<anchor, forwards>>
    /\ UNCHANGED <<mgrVars, zfsVars, allocVars, connVars, buildVars, bootVars, concVars,
                   cycleVars, daemon_pc, taskVars>>

\* a loop that retries whatever the message of the failure is
retry_any_failure(outcome) == outcome \in {"not_configured", "other"}

\* the test for a failure that is tried again
retryable(outcome) == outcome = "not_configured"

\* one pass of the loop of move_epair_to_vnet_jail
MoveAttempt(outcome) ==
    /\ move_pc = "try"
    /\ IF outcome = "success" THEN
           /\ move_pc' = "ok"
           /\ UNCHANGED <<attempt, delay, waits>>
       ELSE IF outcome # "spawn_failed" /\ retryable(outcome) /\ attempt < MAX_ATTEMPTS THEN
           /\ waits' = Append(waits, [ms |-> delay, after |-> outcome])
           /\ delay' = IF delay * 2 < 5000 THEN delay * 2 ELSE 5000
           /\ attempt' = attempt + 1
           /\ UNCHANGED move_pc
       ELSE
           /\ move_pc' = "err"
           /\ UNCHANGED <<attempt, delay, waits>>
    /\ UNCHANGED <<anchor, forwards>>
    /\ UNCHANGED <<mgrVars, zfsVars, allocVars, connVars, buildVars, bootVars, concVars,
                   cycleVars, daemon_pc, taskVars>>

\* the redirect rules callers ask for: container address and host port
PfRules == {[ip |-> <<10, 11, 0, 2>>, host_port |-> 8080],
            [ip |-> <<10, 11, 0, 2>>, host_port |-> 8443],
            [ip |-> <<10, 11, 0, 3>>, host_port |-> 9090]}

\* setup_port_forwarding: `pfctl -a kawakaze_forwarding -f -` reads one rule
\* and loads it as the ruleset of the anchor
SetupPortForwarding(rule, pfok) ==
    /\ move_pc # "try"
    /\ IF pfok
       THEN /\ anchor' = {rule}
            /\ forwards' = forwards \cup {rule}
       ELSE UNCHANGED <<anchor, forwards>>
    /\ UNCHANGED <<move_pc, attempt, delay, waits>>
    /\ UNCHANGED <<mgrVars, zfsVars, allocVars, connVars, buildVars, bootVars, concVars,
                   cycleVars, daemon_pc, taskVars>>

\* remove_port_forwarding(container_ip): `pfctl -a kawakaze_forwarding -F all`
RemovePortForwarding(container_ip) ==
    /\ move_pc # "try"
    /\ anchor' = {}
    /\ forwards' = {r \in forwards : r.ip # container_ip}
    /\ UNCHANGED <<move_pc, attempt, delay, waits>>
    /\ UNCHANGED <<mgrVars, zfsVars, allocVars, connVars, buildVars, bootVars, concVars,
                   cycleVars, daemon_pc, taskVars>>

NextNet ==
    \/ MoveStart
    \/ \E outcome \in IfconfigOutcomes : MoveAttempt(outcome)
    \/ \E rule \in PfRules, pfok \in BOOLEAN : SetupPortForwarding(rule, pfok)
    \/ \E rule \in PfRules : RemovePortForwarding(rule.ip)

SpecNet == InitRoot /\ [][NextNet]_vars

\* every ifconfig the loop starts returns
FairNet == SpecNet /\ WF_vars(\E outcome \in IfconfigOutcomes : MoveAttempt(outcome))

\* C32: the move of the epair makes at most 10 attempts, sleeps 500 ms
\* before the first and then 500, 1000, 2000, 4000, 5000, 5000, ... ms
\* between attempts, one sleep per failed attempt that is tried again, and
\* a failed attempt is tried again only when it reported Device not
\* configured, and every call ends with success or an error.
C32_BoundedBackoff ==
    /\ [](move_pc # "idle" =>
            /\ attempt \in 1..MAX_ATTEMPTS
            /\ Len(waits) = attempt
            /\ waits[1] = [ms |-> 500, after |-> "start"]
            /\ \A i \in 2..Len(waits) :
                   /\ waits[i].after = "not_configured"
                   /\ waits[i].ms = IF i = 2 THEN 500
                                    ELSE IF waits[i - 1].ms * 2 < 5000 THEN waits[i - 1].ms * 2
                                    ELSE 5000)
    /\ (move_pc = "try" ~> move_pc \in {"ok", "err"})

C32_Witness ==
    /\ move_pc = "err"
    /\ attempt = MAX_ATTEMPTS
    /\ [i \in 1..Len(waits) |-> waits[i].ms]
           = <<500, 500, 1000, 2000, 4000, 5000, 5000, 5000, 5000, 5000>>

\* C36: the anchor holds the rules of all mappings that were set up and
\* not released.
C36_AnchorHoldsAllForwards == forwards \subseteq anchor

\* C33: the manager files every container under the id that the container
\* itself and its store row carry, the id returned when it was created.
C33_KeyedByOwnId ==
    \A k \in DOMAIN containers :
        /\ containers[k].id = k
        /\ k \in DOMAIN store_containers
        /\ store_containers[k].id = k

\* C34: a container is Running only while its jail is in the manager and
\* Running.
C34_RunningOnlyWithRunningJail ==
    \A k \in DOMAIN containers :
        containers[k].state = "Running"
            => /\ containers[k].jail_name \in DOMAIN jails
               /\ jails[containers[k].jail_name].state = "Running"

\* C35: a removal of a jail that fails leaves the jail in the manager and
\* its row in the store.
C35_FailedRemovalChangesNothing ==
    [][(resp'.op = "delete_jail" /\ resp'.status = 500)
           => (jails' = jails /\ store_jails' = store_jails)]_vars

\* C38: once POST jails/{name}/bootstrap was answered 202 the manager holds
\* a progress record for that jail, so that the status request finds one.
C38_RecordBeforeReply ==
    resp = Reply("bootstrap_jail", 202) => boot_name \in DOMAIN bootstrap_progress

(***************************************************************************)
(* handler.rs bootstrap_jail: the tasks it spawns, their forwarding tasks  *)
(* and the senders kept in JailManager.bootstrap_tracker                   *)
(***************************************************************************)
\* bootstrap requests answered 202 in one run of the daemon
MaxTasks == 3

\* POST jails/{name}/bootstrap: handler bootstrap_jail up to its 202 reply;
\* the only test made is Bootstrap::is_bootstrapped(jail_path)
BootstrapPost(name) ==
    /\ IF name \notin DOMAIN jails
       THEN /\ resp' = Reply("bootstrap_jail", 404)
            /\ UNCHANGED boot_tasks
       ELSE IF name \in bootstrapped
       THEN /\ resp' = Reply("bootstrap_jail", 409)
            /\ UNCHANGED boot_tasks
       ELSE /\ Len(boot_tasks) < MaxTasks
            /\ boot_tasks' = Append(boot_tasks,
                                    [name |-> name, stage |-> "spawned", forwarder |-> FALSE])
            /\ resp' = Reply("bootstrap_jail", 202)
    /\ fresh' = FALSE
    /\ UNCHANGED <<jails, store_jails, kernel, next_jid, api_jails, bootstrap_tracker>>
    /\ UNCHANGED othersJ
    /\ UNCHANGED <<zfsVars, allocVars, connVars, buildVars, bootVars, concVars, cycleVars,
                   daemon_pc, netVars>>

\* the next step of the spawned task i: register_bootstrap_tracker, which
\* puts the sender of the task's channel in the map in place of the one
\* kept there, and the spawn of the forwarding task; Bootstrap::run up to
\* extract_tarball, which returns at once when bin/sh exists; the rest of
\* run and the end of the task.  A step that fails ends the task.
TaskStep(i, ok) ==
    /\ i \in 1..Len(boot_tasks)
    /\ LET t == boot_tasks[i]
       IN /\ t.stage # "ended"
          /\ IF t.stage = "spawned"
             THEN /\ bootstrap_tracker' = MapPut(bootstrap_tracker, t.name, i)
                  /\ boot_tasks' = [boot_tasks EXCEPT ![i].forwarder = TRUE,
                                                      ![i].stage = IF ok THEN "running" ELSE "ended"]
                  /\ UNCHANGED bootstrapped
             ELSE IF t.stage = "running"
             THEN /\ boot_tasks' = [boot_tasks EXCEPT ![i].stage =
                                       IF ok /\ t.name \notin bootstrapped
                                       THEN "extracted" ELSE "ended"]
                  /\ bootstrapped' = IF ok /\ t.name \notin bootstrapped
                                     THEN bootstrapped \cup {t.name} ELSE bootstrapped
                  /\ UNCHANGED bootstrap_tracker
             ELSE /\ boot_tasks' = [boot_tasks EXCEPT ![i].stage = "ended"]
                  /\ UNCHANGED <<bootstrapped, bootstrap_tracker>>
    /\ UNCHANGED <<boot_pc, boot_name, boot_stage, boot_result, boot_chan, bootstrap_progress>>
    /\ UNCHANGED <<mgrVars, zfsVars, allocVars, connVars, buildVars, concVars, cycleVars,
                   daemon_pc, netVars>>

\* progress_rx.recv() returns None and the forwarding task of task i ends:
\* the task has dropped its sender and the map holds no clone of it
ForwarderEnd(i) ==
    /\ i \in 1..Len(boot_tasks)
    /\ boot_tasks[i].forwarder
    /\ boot_tasks[i].stage = "ended"
    /\ bootstrap_tracker[boot_tasks[i].name] # i
    /\ boot_tasks' = [boot_tasks EXCEPT ![i].forwarder = FALSE]
    /\ UNCHANGED bootstrap_tracker
    /\ UNCHANGED <<mgrVars, zfsVars, allocVars, connVars, buildVars, bootVars, concVars,
                   cycleVars, daemon_pc, netVars>>

NextTasks ==
    \/ \E name \in JailNames : CreateJail(name)
    \/ \E name \in JailNames : BootstrapPost(name)
    \/ \E i \in 1..MaxTasks, ok \in BOOLEAN : TaskStep(i, ok)
    \/ \E i \in 1..MaxTasks : ForwarderEnd(i)

SpecTasks == InitRoot /\ [][NextTasks]_vars

\* C37: no two bootstrap tasks of one jail are at work at the same time.
C37_OneTaskPerJail ==
    \A i \in 1..Len(boot_tasks), j \in 1..Len(boot_tasks) :
        (/\ i # j
         /\ boot_tasks[i].name = boot_tasks[j].name
         /\ boot_tasks[i].stage \in {"running", "extracted"})
            => boot_tasks[j].stage \notin {"running", "extracted"}

\* C39: when every bootstrap task has ended and every forwarding task that
\* can end has ended, no forwarding task is alive and the tracker map is
\* empty.
C39_NothingLeftBehind ==
    (\A i \in 1..Len(boot_tasks) :
        /\ boot_tasks[i].stage = "ended"
        /\ boot_tasks[i].forwarder => bootstrap_tracker[boot_tasks[i].name] = i)
        => /\ \A i \in 1..Len(boot_tasks) : ~boot_tasks[i].forwarder
           /\ DOMAIN bootstrap_tracker = {}

(***************************************************************************)
(* networking.rs: NetworkManager::allocate_network                         *)
(***************************************************************************)
\* allocate_network: ip_allocator.allocate()?, create_epair()?,
\* attach_to_bridge()?; netstep names the step that fails, "none" when the
\* three succeed
AllocateNetwork(saveok, netstep) ==
    /\ Cardinality(allocated_ips) < MaxIps
    /\ next_ip < MaxCursor \/ next_ip >= 65534 - MaxCursor
    /\ LET first == scan(next_ip, 65534, allocated_ips)
           gap == scan(2, next_ip, allocated_ips)
           hit == IF first.kind = "none" THEN gap ELSE first
           ip == offset_to_ip(hit.offset)
       IN IF hit.kind = "free"
          THEN /\ allocated_ips' = allocated_ips \cup {ip}
               /\ next_ip' = IF first.kind = "free" THEN hit.offset + 1 ELSE next_ip
               /\ ip_file' = save_state(allocated_ips', saveok)
               /\ held' = IF saveok /\ netstep = "none" THEN held \cup {ip} ELSE held
               /\ ret' = [op |-> "allocate_network", ok |-> saveok /\ netstep = "none",
                          ip |-> ip, was_allocated |-> contains(allocated_ips, ip),
                          error |-> IF ~saveok THEN "IoError"
                                    ELSE IF netstep = "create_epair" THEN "EpairCreationFailed"
                                    ELSE IF netstep = "attach_to_bridge"
                                    THEN "EpairAttachmentFailed"
                                    ELSE ""]
          ELSE /\ ret' = [op |-> "allocate_network", ok |-> FALSE, ip |-> << >>,
                          was_allocated |-> FALSE,
                          error |-> IF hit.kind = "none" THEN "IpExhausted"
                                    ELSE "IpAllocationFailed"]
               /\ UNCHANGED <<allocated_ips, next_ip, ip_file, held>>
    /\ UNCHANGED bulk_hi
    /\ UNCHANGED notAlloc

NextAllocNet ==
    \/ NextAlloc
    \/ \E saveok \in BOOLEAN, netstep \in {"none", "create_epair", "attach_to_bridge"} :
           AllocateNetwork(saveok, netstep)

SpecAllocNet == InitAlloc /\ [][NextAllocNet]_vars

\* C40: after allocate_network failed in create_epair or attach_to_bridge
\* the address it had allocated is free again.
C40_FailedNetworkFreesAddress ==
    (ret.op = "allocate_network" /\ ret.error \in {"EpairCreationFailed", "EpairAttachmentFailed"})
        => ret.ip \notin allocated_ips

====
